---- MODULE Spec2Model ----
(***************************************************************************)
(* Proof of Dev: the reputation scorer (GitHubAnalyzer) and the credential *)
(* trust engine (ReputationEngine).                                        *)
(*                                                                         *)
(* The operations are pure functions over JavaScript numbers.  A number is *)
(* an IEEE-754 binary64 value and every +, * and / of the source rounds to *)
(* the nearest representable value (ties to even), so the operators below  *)
(* carry a 53-bit significand and round after every operation, exactly as  *)
(* the engine that runs the code does.  Significands do not fit the        *)
(* integers of the model checker, so they are kept as little-endian        *)
(* sequences of 15-bit limbs.                                              *)
(***************************************************************************)
EXTENDS Integers, Sequences, FiniteSets, Bags, TLC

\* ------------------------------------------------------------------------
\* Natural numbers of arbitrary size: little-endian limbs, no leading zero
\* limb, zero is the empty sequence.
\* ------------------------------------------------------------------------
\* a limb holds LimbBits bits, so that a product of two limbs plus a carry
\* stays below 2^31; a significand holds MantBits bits (binary64)
LimbBits == 15
MantBits == 53
LimbBase == 2 ^ LimbBits

RECURSIVE BNorm(_)
BNorm(a) ==
  IF a = << >> THEN << >>
  ELSE IF a[Len(a)] = 0 THEN BNorm(SubSeq(a, 1, Len(a) - 1))
  ELSE a

RECURSIVE BFromInt(_)
BFromInt(n) ==
  IF n = 0 THEN << >>
  ELSE << n % LimbBase >> \o BFromInt(n \div LimbBase)

RECURSIVE BToInt(_)
BToInt(a) ==
  IF a = << >> THEN 0
  ELSE Head(a) + LimbBase * BToInt(Tail(a))

RECURSIVE BAddC(_, _, _)
BAddC(a, b, c) ==
  IF a = << >> /\ b = << >> THEN (IF c = 0 THEN << >> ELSE << c >>)
  ELSE LET x == (IF a = << >> THEN 0 ELSE Head(a))
                + (IF b = << >> THEN 0 ELSE Head(b)) + c
       IN  << x % LimbBase >>
             \o BAddC(IF a = << >> THEN << >> ELSE Tail(a),
                      IF b = << >> THEN << >> ELSE Tail(b),
                      x \div LimbBase)

BAdd(a, b) == BAddC(a, b, 0)

\* a - b - c for a >= b + c, before normalisation
RECURSIVE BSubC(_, _, _)
BSubC(a, b, c) ==
  IF a = << >> THEN << >>
  ELSE LET x == Head(a) - (IF b = << >> THEN 0 ELSE Head(b)) - c
       IN  << IF x < 0 THEN x + LimbBase ELSE x >>
             \o BSubC(Tail(a),
                      IF b = << >> THEN << >> ELSE Tail(b),
                      IF x < 0 THEN 1 ELSE 0)

BSub(a, b) == BNorm(BSubC(a, b, 0))

\* -1, 0, 1 as a is below, equal to, above b
RECURSIVE BCmpFrom(_, _, _)
BCmpFrom(a, b, i) ==
  IF i = 0 THEN 0
  ELSE IF a[i] < b[i] THEN -1
  ELSE IF a[i] > b[i] THEN 1
  ELSE BCmpFrom(a, b, i - 1)

BCmp(a, b) ==
  IF Len(a) < Len(b) THEN -1
  ELSE IF Len(a) > Len(b) THEN 1
  ELSE BCmpFrom(a, b, Len(a))

\* a * k + c for a limb k
RECURSIVE BMulSmallC(_, _, _)
BMulSmallC(a, k, c) ==
  IF a = << >> THEN (IF c = 0 THEN << >> ELSE << c >>)
  ELSE LET x == Head(a) * k + c
       IN  << x % LimbBase >> \o BMulSmallC(Tail(a), k, x \div LimbBase)

BMulSmall(a, k) == BNorm(BMulSmallC(a, k, 0))

RECURSIVE BMul(_, _)
BMul(a, b) ==
  IF a = << >> \/ b = << >> THEN << >>
  ELSE BAdd(BMulSmall(a, Head(b)), BNorm(<< 0 >> \o BMul(a, Tail(b))))

\* quotient of a by a limb k, from the most significant limb down
RECURSIVE BDivSmallR(_, _, _, _)
BDivSmallR(a, k, i, r) ==
  IF i = 0 THEN << >>
  ELSE LET x == r * LimbBase + a[i]
       IN  BDivSmallR(a, k, i - 1, x % k) \o << x \div k >>

BDivSmall(a, k) == BNorm(BDivSmallR(a, k, Len(a), 0))

RECURSIVE IntBitLen(_)
IntBitLen(n) == IF n = 0 THEN 0 ELSE 1 + IntBitLen(n \div 2)

BBitLen(a) ==
  IF a = << >> THEN 0
  ELSE (Len(a) - 1) * LimbBits + IntBitLen(a[Len(a)])

\* a * 2^n
BShl(a, n) ==
  IF a = << >> THEN << >>
  ELSE [i \in 1..(n \div LimbBits) |-> 0] \o BMulSmall(a, 2 ^ (n % LimbBits))

\* floor(a / 2^n)
BShr(a, n) ==
  IF n \div LimbBits >= Len(a) THEN << >>
  ELSE BDivSmall(SubSeq(a, (n \div LimbBits) + 1, Len(a)), 2 ^ (n % LimbBits))

BOdd(a) == a # << >> /\ Head(a) % 2 = 1

BOne == << 1 >>

\* ------------------------------------------------------------------------
\* JavaScript numbers.  A number is [neg, m, e] with value (-1)^neg * m * 2^e
\* and m either zero or exactly MantBits bits long.  The values the program
\* handles stay far from the subnormal and overflow ranges.
\* ------------------------------------------------------------------------
NumZero == [neg |-> FALSE, m |-> << >>, e |-> 0]

IsZero(x) == x.m = << >>

\* A significand r of at most MantBits + 1 bits: a carry out of the top bit
\* drops the lowest bit (which is then zero)
RoundCarry(neg, r, e) ==
  IF BBitLen(r) > MantBits
  THEN [neg |-> neg, m |-> BShr(r, 1), e |-> e + 1]
  ELSE [neg |-> neg, m |-> r, e |-> e]

\* kept is the magnitude without its dropped low bits and c compares the
\* dropped bits with half a unit of kept: round to nearest, ties to even
RoundUp(neg, kept, e, c, sticky) ==
  RoundCarry(neg,
             IF c > 0 \/ (c = 0 /\ (sticky \/ BOdd(kept)))
             THEN BAdd(kept, BOne) ELSE kept,
             e)

\* mag is longer than a significand by s bits; kept is mag without them
RoundDrop(neg, mag, e, sticky, s, kept) ==
  RoundUp(neg, kept, e + s,
          BCmp(BSub(mag, BShl(kept, s)), BShl(BOne, s - 1)), sticky)

\* mag is len bits long
RoundLen(neg, mag, e, sticky, len) ==
  IF len <= MantBits
  THEN [neg |-> neg, m |-> BShl(mag, MantBits - len), e |-> e - (MantBits - len)]
  ELSE RoundDrop(neg, mag, e, sticky, len - MantBits, BShr(mag, len - MantBits))

\* the number nearest to (-1)^neg * (mag + sticky) * 2^e, ties to even; sticky
\* says that a non-zero amount below one unit of mag was dropped
RoundPack(neg, mag, e, sticky) ==
  IF mag = << >> THEN NumZero ELSE RoundLen(neg, mag, e, sticky, BBitLen(mag))

\* Number(n) for an integer n
FromInt(n) == RoundPack(n < 0, BFromInt(IF n < 0 THEN -n ELSE n), 0, FALSE)

\* -1, 0, 1 as |x| is below, equal to, above |y|
MagCmp(x, y) ==
  IF IsZero(x) THEN (IF IsZero(y) THEN 0 ELSE -1)
  ELSE IF IsZero(y) THEN 1
  ELSE IF x.e < y.e THEN -1
  ELSE IF x.e > y.e THEN 1
  ELSE BCmp(x.m, y.m)

\* x < y
NumLt(x, y) ==
  IF x.neg /\ ~y.neg THEN ~(IsZero(x) /\ IsZero(y))
  ELSE IF ~x.neg /\ y.neg THEN FALSE
  ELSE IF x.neg THEN MagCmp(x, y) > 0
  ELSE MagCmp(x, y) < 0

\* the sum of (-1)^xneg * a * 2^e and (-1)^yneg * b * 2^e
AddAligned(xneg, a, yneg, b, e) ==
  RoundPack(IF xneg = yneg \/ BCmp(a, b) >= 0 THEN xneg ELSE yneg,
            IF xneg = yneg THEN BAdd(a, b)
            ELSE IF BCmp(a, b) >= 0 THEN BSub(a, b) ELSE BSub(b, a),
            e, FALSE)

\* x + y
NumAdd(x, y) ==
  IF IsZero(x) THEN y
  ELSE IF IsZero(y) THEN x
  ELSE AddAligned(x.neg, BShl(x.m, x.e - (IF x.e < y.e THEN x.e ELSE y.e)),
                  y.neg, BShl(y.m, y.e - (IF x.e < y.e THEN x.e ELSE y.e)),
                  IF x.e < y.e THEN x.e ELSE y.e)

\* x * y
NumMul(x, y) ==
  IF IsZero(x) \/ IsZero(y) THEN NumZero
  ELSE RoundPack(x.neg # y.neg, BMul(x.m, y.m), x.e + y.e, FALSE)

\* the largest k <= qhat with d * k <= r
RECURSIVE QuotFix(_, _, _)
QuotFix(r, d, qhat) ==
  IF BCmp(BMulSmall(d, qhat), r) > 0 THEN QuotFix(r, d, qhat - 1) ELSE qhat

\* the estimate of the next quotient limb from the two top limbs of the
\* running remainder r2 and the top limb of d, at most LimbBase - 1
Estimate(r2, d) ==
  LET L   == Len(d)
      hi  == IF Len(r2) > L THEN r2[L + 1] ELSE 0
      lo  == IF Len(r2) >= L THEN r2[L] ELSE 0
      est == (hi * LimbBase + lo) \div d[L]
  IN  IF est > LimbBase - 1 THEN LimbBase - 1 ELSE est

\* the quotient limbs rest.q that follow the limb qhat, with qhat put on top
PrependLimb(rest, qhat) == [q |-> rest.q \o << qhat >>, r |-> rest.r]

\* long division in base LimbBase: the next n limbs of the quotient r / d for
\* r < d, most significant first in the recursion, with the final remainder;
\* d has its top limb full, so the estimate from the two top limbs of the
\* running remainder is at most two above the digit
RECURSIVE DivLimbs(_, _, _)
RECURSIVE DivLimb(_, _, _, _)
DivLimb(r2, d, n, qhat) ==
  PrependLimb(DivLimbs(BSub(r2, BMulSmall(d, qhat)), d, n - 1), qhat)

RECURSIVE DivStep(_, _, _)
DivStep(r2, d, n) == DivLimb(r2, d, n, QuotFix(r2, d, Estimate(r2, d)))

DivLimbs(r, d, n) ==
  IF n = 0 THEN [q |-> << >>, r |-> r]
  ELSE DivStep(BNorm(<< 0 >> \o r), d, n)

\* enough quotient limbs to hold a significand, a guard bit and more
QuotLimbs == (MantBits + 2) \div LimbBits + 1

\* res is the long division after the leading quotient bit first
DivPack(neg, res, first, e) ==
  RoundPack(neg, BNorm(res.q \o << IF first THEN 1 ELSE 0 >>), e, res.r # << >>)

\* the quotient of n * 2^e' by d with n < 2 * d, d having its top limb full
DivFrom(neg, n, d, e) ==
  DivPack(neg,
          DivLimbs(IF BCmp(n, d) >= 0 THEN BSub(n, d) ELSE n, d, QuotLimbs),
          BCmp(n, d) >= 0, e)

\* x / y with both significands shifted left by sh bits
DivAligned(x, y, sh) ==
  DivFrom(x.neg # y.neg, BShl(x.m, sh), BShl(y.m, sh),
          x.e - y.e - QuotLimbs * LimbBits)

\* x / y for y # 0
NumDiv(x, y) ==
  IF IsZero(x) THEN NumZero
  ELSE DivAligned(x, y, LimbBits * Len(y.m) - BBitLen(y.m))

\* Math.min(x, y)
MathMin(x, y) == IF NumLt(y, x) THEN y ELSE x

\* k plus one when the dropped fraction, compared with a half by c, rounds up
RoundedInt(neg, k, c) ==
  IF neg THEN -(k + (IF c > 0 THEN 1 ELSE 0))
  ELSE k + (IF c >= 0 THEN 1 ELSE 0)

\* x has s fraction bits and kept is its magnitude without them
RoundFraction(x, s, kept) ==
  RoundedInt(x.neg, BToInt(kept),
             IF s > MantBits + 1 THEN -1
             ELSE BCmp(BSub(x.m, BShl(kept, s)), BShl(BOne, s - 1)))

\* Math.round(x): the integer nearest to x, a half rounding towards +infinity
MathRound(x) ==
  IF IsZero(x) THEN 0
  ELSE IF x.e >= 0 THEN (IF x.neg THEN -1 ELSE 1) * BToInt(BShl(x.m, x.e))
  ELSE RoundFraction(x, -x.e, BShr(x.m, -x.e))

\* a decimal literal n/d of the source text: the number nearest to n/d
Dec(n, d) == NumDiv(FromInt(n), FromInt(d))

Num0_1 == Dec(1, 10)
Num0_2 == Dec(2, 10)
Num0_3 == Dec(3, 10)
Num0_4 == Dec(4, 10)
Num0_5 == Dec(5, 10)

\* ------------------------------------------------------------------------
\* GitHubAnalyzer.calculateReputationScore
\* ------------------------------------------------------------------------
\* metrics.field || 0
OrZero(v) == IF v = 0 THEN 0 ELSE v

\* calculateReputationScore with the sum clamped to the 0-100 scale
calculateReputationScore_clamped(metrics) ==
  LET s1 == MathMin(FromInt(OrZero(metrics.followers)), FromInt(100))
      s2 == NumAdd(s1, MathMin(NumMul(FromInt(OrZero(metrics.totalStars)), Num0_1),
                               FromInt(200)))
      s3 == NumAdd(s2, MathMin(NumMul(FromInt(OrZero(metrics.totalRepositories)),
                                      FromInt(2)), FromInt(150)))
      ageYears == NumDiv(FromInt(OrZero(metrics.accountAge)), FromInt(365))
      s4 == NumAdd(s3, MathMin(NumMul(ageYears, FromInt(10)), FromInt(100)))
      s5 == NumAdd(s4, MathMin(NumMul(FromInt(OrZero(metrics.recentActivity)),
                                      FromInt(2)), FromInt(100)))
      s6 == NumAdd(s5, MathMin(NumMul(FromInt(OrZero(metrics.totalForks)), Num0_5),
                               FromInt(50)))
  IN  MathRound(MathMin(s6, FromInt(100)))

\* calculateReputationScore with the forks contribution left uncapped
calculateReputationScore_forks(metrics) ==
  LET s1 == MathMin(FromInt(OrZero(metrics.followers)), FromInt(100))
      s2 == NumAdd(s1, MathMin(NumMul(FromInt(OrZero(metrics.totalStars)), Num0_1),
                               FromInt(200)))
      s3 == NumAdd(s2, MathMin(NumMul(FromInt(OrZero(metrics.totalRepositories)),
                                      FromInt(2)), FromInt(150)))
      ageYears == NumDiv(FromInt(OrZero(metrics.accountAge)), FromInt(365))
      s4 == NumAdd(s3, MathMin(NumMul(ageYears, FromInt(10)), FromInt(100)))
      s5 == NumAdd(s4, MathMin(NumMul(FromInt(OrZero(metrics.recentActivity)),
                                      FromInt(2)), FromInt(100)))
      s6 == NumAdd(s5, NumMul(FromInt(OrZero(metrics.totalForks)), Num0_5))
  IN  MathRound(s6)

\* calculateReputationScore with the forks contribution subtracted
calculateReputationScore_minusForks(metrics) ==
  LET s1 == MathMin(FromInt(OrZero(metrics.followers)), FromInt(100))
      s2 == NumAdd(s1, MathMin(NumMul(FromInt(OrZero(metrics.totalStars)), Num0_1),
                               FromInt(200)))
      s3 == NumAdd(s2, MathMin(NumMul(FromInt(OrZero(metrics.totalRepositories)),
                                      FromInt(2)), FromInt(150)))
      ageYears == NumDiv(FromInt(OrZero(metrics.accountAge)), FromInt(365))
      s4 == NumAdd(s3, MathMin(NumMul(ageYears, FromInt(10)), FromInt(100)))
      s5 == NumAdd(s4, MathMin(NumMul(FromInt(OrZero(metrics.recentActivity)),
                                      FromInt(2)), FromInt(100)))
      s6 == NumAdd(s5, NumMul(FromInt(-1),
                              MathMin(NumMul(FromInt(OrZero(metrics.totalForks)), Num0_5),
                                      FromInt(50))))
  IN  MathRound(s6)

calculateReputationScore(metrics) ==
  LET s0 == NumZero
      s1 == NumAdd(s0, MathMin(FromInt(OrZero(metrics.followers)), FromInt(100)))
      s2 == NumAdd(s1, MathMin(NumMul(FromInt(OrZero(metrics.totalStars)), Num0_1),
                               FromInt(200)))
      s3 == NumAdd(s2, MathMin(NumMul(FromInt(OrZero(metrics.totalRepositories)),
                                      FromInt(2)), FromInt(150)))
      ageYears == NumDiv(FromInt(OrZero(metrics.accountAge)), FromInt(365))
      s4 == NumAdd(s3, MathMin(NumMul(ageYears, FromInt(10)), FromInt(100)))
      s5 == NumAdd(s4, MathMin(NumMul(FromInt(OrZero(metrics.recentActivity)),
                                      FromInt(2)), FromInt(100)))
      s6 == NumAdd(s5, MathMin(NumMul(FromInt(OrZero(metrics.totalForks)), Num0_5),
                               FromInt(50)))
  IN  MathRound(s6)

\* ------------------------------------------------------------------------
\* ReputationEngine
\* ------------------------------------------------------------------------
\* credential.type.find(type => type !== "VerifiableCredential"); "undefined"
\* when no entry qualifies
RECURSIVE FindType(_, _)
FindType(type, i) ==
  IF i > Len(type) THEN "undefined"
  ELSE IF type[i] # "VerifiableCredential" THEN type[i]
  ELSE FindType(type, i + 1)

credentialType(credential) == FindType(credential.type, 1)

\* the switch over proficiencyLevel; score stays 0 when no case matches
BaseScore(proficiencyLevel) ==
  CASE proficiencyLevel = "Beginner"     -> 25
    [] proficiencyLevel = "Intermediate" -> 50
    [] proficiencyLevel = "Advanced"     -> 75
    [] proficiencyLevel = "Expert"       -> 100
    [] OTHER                             -> 0

\* calculateSkillScore with the evidence factor starting at 0.3, not 0.4
calculateSkillScore_base03(skillCredential) ==
  LET proficiencyLevel == skillCredential.credentialSubject.proficiencyLevel
      evidence == skillCredential.credentialSubject.evidence
      base == FromInt(BaseScore(proficiencyLevel))
      commitsMultiplier ==
        MathMin(NumDiv(FromInt(evidence.commits), FromInt(100)), FromInt(1))
      locMultiplier ==
        MathMin(NumDiv(FromInt(evidence.linesOfCode), FromInt(10000)), FromInt(1))
      projectsMultiplier ==
        MathMin(NumDiv(FromInt(Len(evidence.projects)), FromInt(5)), FromInt(1))
      factor ==
        NumAdd(NumAdd(NumAdd(Num0_3, NumMul(Num0_2, commitsMultiplier)),
                      NumMul(Num0_2, locMultiplier)),
               NumMul(Num0_2, projectsMultiplier))
      score == NumMul(base, factor)
  IN  MathRound(MathMin(score, FromInt(100)))

\* calculateSkillScore with the lines-of-code term subtracted
calculateSkillScore_minusLoc(skillCredential) ==
  LET proficiencyLevel == skillCredential.credentialSubject.proficiencyLevel
      evidence == skillCredential.credentialSubject.evidence
      base == FromInt(BaseScore(proficiencyLevel))
      commitsMultiplier ==
        MathMin(NumDiv(FromInt(evidence.commits), FromInt(100)), FromInt(1))
      locMultiplier ==
        MathMin(NumDiv(FromInt(evidence.linesOfCode), FromInt(10000)), FromInt(1))
      projectsMultiplier ==
        MathMin(NumDiv(FromInt(Len(evidence.projects)), FromInt(5)), FromInt(1))
      factor ==
        NumAdd(NumAdd(NumAdd(Num0_4, NumMul(Num0_2, commitsMultiplier)),
                      NumMul(FromInt(-1), NumMul(Num0_2, locMultiplier))),
               NumMul(Num0_2, projectsMultiplier))
      score == NumMul(base, factor)
  IN  MathRound(MathMin(score, FromInt(100)))

\* calculateSkillScore with commitsMultiplier used in place of locMultiplier
calculateSkillScore_commitsTwice(skillCredential) ==
  LET proficiencyLevel == skillCredential.credentialSubject.proficiencyLevel
      evidence == skillCredential.credentialSubject.evidence
      base == FromInt(BaseScore(proficiencyLevel))
      commitsMultiplier ==
        MathMin(NumDiv(FromInt(evidence.commits), FromInt(100)), FromInt(1))
      projectsMultiplier ==
        MathMin(NumDiv(FromInt(Len(evidence.projects)), FromInt(5)), FromInt(1))
      factor ==
        NumAdd(NumAdd(NumAdd(Num0_4, NumMul(Num0_2, commitsMultiplier)),
                      NumMul(Num0_2, commitsMultiplier)),
               NumMul(Num0_2, projectsMultiplier))
      score == NumMul(base, factor)
  IN  MathRound(MathMin(score, FromInt(100)))

calculateSkillScore(skillCredential) ==
  LET proficiencyLevel == skillCredential.credentialSubject.proficiencyLevel
      evidence == skillCredential.credentialSubject.evidence
      base == FromInt(BaseScore(proficiencyLevel))
      commitsMultiplier ==
        MathMin(NumDiv(FromInt(evidence.commits), FromInt(100)), FromInt(1))
      locMultiplier ==
        MathMin(NumDiv(FromInt(evidence.linesOfCode), FromInt(10000)), FromInt(1))
      projectsMultiplier ==
        MathMin(NumDiv(FromInt(Len(evidence.projects)), FromInt(5)), FromInt(1))
      factor ==
        NumAdd(NumAdd(NumAdd(Num0_4, NumMul(Num0_2, commitsMultiplier)),
                      NumMul(Num0_2, locMultiplier)),
               NumMul(Num0_2, projectsMultiplier))
      score == NumMul(base, factor)
  IN  MathRound(MathMin(score, FromInt(100)))

\* the outcome of the call calculateSkillScore(skillCredential) on a credential
\* that may lack fields: reading a property of undefined (evidence.commits
\* without evidence, evidence.projects.length without projects) throws a
\* TypeError; an undefined commits or linesOfCode makes its multiplier, the
\* factor, the score and Math.round(Math.min(score, 100)) NaN
SkillScoreOutcome(skillCredential) ==
  LET subject == skillCredential.credentialSubject IN
  IF "evidence" \notin DOMAIN subject THEN [outcome |-> "TypeError"]
  ELSE IF "projects" \notin DOMAIN subject.evidence THEN [outcome |-> "TypeError"]
  ELSE IF \/ "commits" \notin DOMAIN subject.evidence
          \/ "linesOfCode" \notin DOMAIN subject.evidence
       THEN [outcome |-> "NaN"]
  ELSE [outcome |-> "number", value |-> calculateSkillScore(skillCredential)]

\* one iteration of the forEach of calculateTrustScore on the accumulators
\* the forEach body of calculateTrustScore with a default case that counts
\* an unrecognised credential with weight 0.1
TrustStep_default(acc, credential) ==
  LET t == credentialType(credential) IN
  CASE t = "DevPortfolioCredential" ->
         [score  |-> NumAdd(acc.score,
                       NumMul(FromInt(credential.credentialSubject.reputationScore),
                              Num0_4)),
          weight |-> NumAdd(acc.weight, Num0_4)]
    [] t = "SkillCredential" ->
         [score  |-> NumAdd(acc.score,
                       NumMul(FromInt(calculateSkillScore(credential)), Num0_3)),
          weight |-> NumAdd(acc.weight, Num0_3)]
    [] t = "ProjectCredential" ->
         [score  |-> NumAdd(acc.score,
                       NumMul(MathMin(
                                NumMul(FromInt(credential.credentialSubject
                                                 .contributionMetrics.commits),
                                       Num0_1),
                                FromInt(100)),
                              Num0_2)),
          weight |-> NumAdd(acc.weight, Num0_2)]
    [] t = "EndorsementCredential" ->
         [score  |-> NumAdd(acc.score,
                       NumMul(NumMul(FromInt(credential.credentialSubject.rating),
                                     FromInt(20)),
                              Num0_1)),
          weight |-> NumAdd(acc.weight, Num0_1)]
    [] OTHER -> [score |-> acc.score, weight |-> NumAdd(acc.weight, Num0_1)]

\* the forEach body of calculateTrustScore adding the portfolio score
\* without its weight
TrustStep_rawPortfolio(acc, credential) ==
  LET t == credentialType(credential) IN
  CASE t = "DevPortfolioCredential" ->
         [score  |-> NumAdd(acc.score,
                       FromInt(credential.credentialSubject.reputationScore)),
          weight |-> NumAdd(acc.weight, Num0_4)]
    [] t = "SkillCredential" ->
         [score  |-> NumAdd(acc.score,
                       NumMul(FromInt(calculateSkillScore(credential)), Num0_3)),
          weight |-> NumAdd(acc.weight, Num0_3)]
    [] t = "ProjectCredential" ->
         [score  |-> NumAdd(acc.score,
                       NumMul(MathMin(
                                NumMul(FromInt(credential.credentialSubject
                                                 .contributionMetrics.commits),
                                       Num0_1),
                                FromInt(100)),
                              Num0_2)),
          weight |-> NumAdd(acc.weight, Num0_2)]
    [] t = "EndorsementCredential" ->
         [score  |-> NumAdd(acc.score,
                       NumMul(NumMul(FromInt(credential.credentialSubject.rating),
                                     FromInt(20)),
                              Num0_1)),
          weight |-> NumAdd(acc.weight, Num0_1)]
    [] OTHER -> acc

TrustStep(acc, credential) ==
  LET t == credentialType(credential) IN
  CASE t = "DevPortfolioCredential" ->
         [score  |-> NumAdd(acc.score,
                       NumMul(FromInt(credential.credentialSubject.reputationScore),
                              Num0_4)),
          weight |-> NumAdd(acc.weight, Num0_4)]
    [] t = "SkillCredential" ->
         [score  |-> NumAdd(acc.score,
                       NumMul(FromInt(calculateSkillScore(credential)), Num0_3)),
          weight |-> NumAdd(acc.weight, Num0_3)]
    [] t = "ProjectCredential" ->
         [score  |-> NumAdd(acc.score,
                       NumMul(MathMin(
                                NumMul(FromInt(credential.credentialSubject
                                                 .contributionMetrics.commits),
                                       Num0_1),
                                FromInt(100)),
                              Num0_2)),
          weight |-> NumAdd(acc.weight, Num0_2)]
    [] t = "EndorsementCredential" ->
         [score  |-> NumAdd(acc.score,
                       NumMul(NumMul(FromInt(credential.credentialSubject.rating),
                                     FromInt(20)),
                              Num0_1)),
          weight |-> NumAdd(acc.weight, Num0_1)]
    [] OTHER -> acc

RECURSIVE TrustFold(_, _, _)
TrustFold(credentials, i, acc) ==
  IF i > Len(credentials) THEN acc
  ELSE CHOOSE result \in { TrustFold(credentials, i + 1, next) :
                             next \in {TrustStep(acc, credentials[i])} } : TRUE

calculateTrustScore(credentials) ==
  CHOOSE result \in
    { IF NumLt(NumZero, acc.weight)
      THEN MathRound(NumDiv(acc.score, acc.weight))
      ELSE 0 :
        acc \in {TrustFold(credentials, 1, [score |-> NumZero, weight |-> NumZero])} } :
    TRUE

\* endorsementMap.get(skillName): the position of the entry keyed skillName in
\* the map's insertion order, 0 when there is none
RECURSIVE MapIndex(_, _, _)
MapIndex(map, skillName, i) ==
  IF i > Len(map) THEN 0
  ELSE IF map[i].skillName = skillName THEN i
  ELSE MapIndex(map, skillName, i + 1)

\* one iteration of the forEach of aggregateEndorsements on the map, kept as
\* the sequence of its values in insertion order
\* the forEach body of aggregateEndorsements with a new skill put in front
\* of the entries already held
AggregateStep_front(map, endorsement) ==
  LET skillName == endorsement.credentialSubject.endorsedSkill
      k == MapIndex(map, skillName, 1)
  IN  IF k # 0
      THEN [map EXCEPT
              ![k].rating =
                 NumDiv(NumAdd(NumMul(map[k].rating, FromInt(map[k].count)),
                               FromInt(endorsement.credentialSubject.rating)),
                        FromInt(map[k].count + 1)),
              ![k].count = map[k].count + 1]
      ELSE << [skillName    |-> skillName,
               endorserType |-> endorsement.credentialSubject.endorserType,
               rating       |-> FromInt(endorsement.credentialSubject.rating),
               count        |-> 1] >> \o map

\* the forEach body of aggregateEndorsements also overwriting endorserType
\* when the skill is already held
AggregateStep_overwrite(map, endorsement) ==
  LET skillName == endorsement.credentialSubject.endorsedSkill
      k == MapIndex(map, skillName, 1)
  IN  IF k # 0
      THEN [map EXCEPT
              ![k].rating =
                 NumDiv(NumAdd(NumMul(map[k].rating, FromInt(map[k].count)),
                               FromInt(endorsement.credentialSubject.rating)),
                        FromInt(map[k].count + 1)),
              ![k].count = map[k].count + 1,
              ![k].endorserType = endorsement.credentialSubject.endorserType]
      ELSE Append(map,
                  [skillName    |-> skillName,
                   endorserType |-> endorsement.credentialSubject.endorserType,
                   rating       |-> FromInt(endorsement.credentialSubject.rating),
                   count        |-> 1])

AggregateStep(map, endorsement) ==
  LET skillName == endorsement.credentialSubject.endorsedSkill
      k == MapIndex(map, skillName, 1)
  IN  IF k # 0
      THEN [map EXCEPT
              ![k].rating =
                 NumDiv(NumAdd(NumMul(map[k].rating, FromInt(map[k].count)),
                               FromInt(endorsement.credentialSubject.rating)),
                        FromInt(map[k].count + 1)),
              ![k].count = map[k].count + 1]
      ELSE Append(map,
                  [skillName    |-> skillName,
                   endorserType |-> endorsement.credentialSubject.endorserType,
                   rating       |-> FromInt(endorsement.credentialSubject.rating),
                   count        |-> 1])

RECURSIVE AggregateFold(_, _, _)
AggregateFold(endorsements, i, map) ==
  IF i > Len(endorsements) THEN map
  ELSE AggregateFold(endorsements, i + 1, AggregateStep(map, endorsements[i]))

\* Array.from(endorsementMap.values())
aggregateEndorsements(endorsements) == AggregateFold(endorsements, 1, << >>)

\* skill1.evidence.projects.filter(p => skill2.evidence.projects.includes(p)).length
sharedProjects(skill1, skill2) ==
  Cardinality({k \in 1..Len(skill1.evidence.projects) :
                 \E l \in 1..Len(skill2.evidence.projects) :
                    skill2.evidence.projects[l] = skill1.evidence.projects[k]})

\* the first forEach of buildSkillGraph with skills.unshift in place of
\* skills.push
RECURSIVE ExtractSkills_unshift(_, _)
ExtractSkills_unshift(credentials, i) ==
  IF i > Len(credentials) THEN << >>
  ELSE IF credentialType(credentials[i]) = "SkillCredential"
  THEN ExtractSkills_unshift(credentials, i + 1)
         \o << [skillName        |-> credentials[i].credentialSubject.skillName,
                proficiencyLevel |-> credentials[i].credentialSubject.proficiencyLevel,
                evidence         |-> credentials[i].credentialSubject.evidence,
                verifiedAt       |-> credentials[i].credentialSubject.verifiedAt] >>
  ELSE ExtractSkills_unshift(credentials, i + 1)

\* the first forEach of buildSkillGraph: the skills pushed for credentials[i..]
RECURSIVE ExtractSkills(_, _)
ExtractSkills(credentials, i) ==
  IF i > Len(credentials) THEN << >>
  ELSE IF credentialType(credentials[i]) = "SkillCredential"
  THEN << [skillName        |-> credentials[i].credentialSubject.skillName,
           proficiencyLevel |-> credentials[i].credentialSubject.proficiencyLevel,
           evidence         |-> credentials[i].credentialSubject.evidence,
           verifiedAt       |-> credentials[i].credentialSubject.verifiedAt] >>
         \o ExtractSkills(credentials, i + 1)
  ELSE ExtractSkills(credentials, i + 1)

\* the first forEach of buildSkillGraph: the endorsement nodes pushed
RECURSIVE ExtractEndorsements(_, _)
ExtractEndorsements(credentials, i) ==
  IF i > Len(credentials) THEN << >>
  ELSE IF credentialType(credentials[i]) # "SkillCredential"
          /\ credentialType(credentials[i]) = "EndorsementCredential"
  THEN << [skillName    |-> credentials[i].credentialSubject.endorsedSkill,
           endorserType |-> credentials[i].credentialSubject.endorserType,
           rating       |-> FromInt(credentials[i].credentialSubject.rating),
           count        |-> 1] >>
         \o ExtractEndorsements(credentials, i + 1)
  ELSE ExtractEndorsements(credentials, i + 1)

\* the nested loops with the inner one starting at the first skill
RECURSIVE Connect_allPairs(_, _, _)
Connect_allPairs(skills, i, j) ==
  IF i > Len(skills) THEN << >>
  ELSE IF j > Len(skills) THEN Connect_allPairs(skills, i + 1, 1)
  ELSE LET n == sharedProjects(skills[i], skills[j]) IN
       (IF n > 0
        THEN << [from         |-> skills[i].skillName,
                 to           |-> skills[j].skillName,
                 relationship |-> "related",
                 strength     |-> MathMin(NumDiv(FromInt(n), FromInt(3)),
                                          FromInt(1))] >>
        ELSE << >>)
       \o Connect_allPairs(skills, i, j + 1)

\* the nested for loops of buildSkillGraph from position (i, j) on
RECURSIVE Connect(_, _, _)
Connect(skills, i, j) ==
  IF i > Len(skills) THEN << >>
  ELSE IF j > Len(skills) THEN Connect(skills, i + 1, i + 2)
  ELSE LET n == sharedProjects(skills[i], skills[j]) IN
       (IF n > 0
        THEN << [from         |-> skills[i].skillName,
                 to           |-> skills[j].skillName,
                 relationship |-> "related",
                 strength     |-> MathMin(NumDiv(FromInt(n), FromInt(3)),
                                          FromInt(1))] >>
        ELSE << >>)
       \o Connect(skills, i, j + 1)

buildSkillGraph(credentials) ==
  LET skills == ExtractSkills(credentials, 1)
  IN  [skills       |-> skills,
       connections  |-> Connect(skills, 1, 2),
       endorsements |-> ExtractEndorsements(credentials, 1)]

\* ------------------------------------------------------------------------
\* ReputationEngine on a heap of objects.  objects is the sequence of the
\* objects alive, an object's reference is its position; the credentials of
\* the list passed in are objects, and so are the nodes a call creates.  A
\* call is given the references of its credentials and yields the heap it
\* leaves behind and what it returns.
\* ------------------------------------------------------------------------
\* endorsementMap.get(skillName) over a map kept as the references of its
\* values in insertion order: the position of the entry, 0 when there is none
RECURSIVE HeapMapIndex(_, _, _, _)
HeapMapIndex(objects, map, skillName, i) ==
  IF i > Len(map) THEN 0
  ELSE IF objects[map[i]].skillName = skillName THEN i
  ELSE HeapMapIndex(objects, map, skillName, i + 1)

\* the forEach body of aggregateEndorsements that also clears the rating of
\* the endorsement it has counted
HeapAggregateStep_consume(st, e) ==
  LET endorsement == st.objects[e]
      skillName == endorsement.credentialSubject.endorsedSkill
      k == HeapMapIndex(st.objects, st.map, skillName, 1)
  IN  IF k # 0
      THEN LET existing == st.objects[st.map[k]] IN
           [objects |->
              [st.objects EXCEPT
                 ![st.map[k]].rating =
                    NumDiv(NumAdd(NumMul(existing.rating, FromInt(existing.count)),
                                  FromInt(endorsement.credentialSubject.rating)),
                           FromInt(existing.count + 1)),
                 ![st.map[k]].count = existing.count + 1,
                 ![e].credentialSubject.rating = 0],
            map |-> st.map]
      ELSE [objects |->
              Append([st.objects EXCEPT ![e].credentialSubject.rating = 0],
                     [skillName    |-> skillName,
                      endorserType |-> endorsement.credentialSubject.endorserType,
                      rating       |-> FromInt(endorsement.credentialSubject.rating),
                      count        |-> 1]),
            map |-> Append(st.map, Len(st.objects) + 1)]

\* the forEach body of aggregateEndorsements for the endorsement at reference
\* e: existing is the node object the map holds, and it is written in place;
\* a new skill gets a new node object
HeapAggregateStep(st, e) ==
  LET endorsement == st.objects[e]
      skillName == endorsement.credentialSubject.endorsedSkill
      k == HeapMapIndex(st.objects, st.map, skillName, 1)
  IN  IF k # 0
      THEN LET existing == st.objects[st.map[k]] IN
           [objects |->
              [st.objects EXCEPT
                 ![st.map[k]].rating =
                    NumDiv(NumAdd(NumMul(existing.rating, FromInt(existing.count)),
                                  FromInt(endorsement.credentialSubject.rating)),
                           FromInt(existing.count + 1)),
                 ![st.map[k]].count = existing.count + 1],
            map |-> st.map]
      ELSE [objects |->
              Append(st.objects,
                     [skillName    |-> skillName,
                      endorserType |-> endorsement.credentialSubject.endorserType,
                      rating       |-> FromInt(endorsement.credentialSubject.rating),
                      count        |-> 1]),
            map |-> Append(st.map, Len(st.objects) + 1)]

RECURSIVE HeapAggregateFold(_, _, _)
HeapAggregateFold(endorsements, i, st) ==
  IF i > Len(endorsements) THEN st
  ELSE CHOOSE result \in { HeapAggregateFold(endorsements, i + 1, next) :
                             next \in {HeapAggregateStep(st, endorsements[i])} } : TRUE

\* aggregateEndorsements(endorsements) with endorsements the references of
\* the credentials: the heap afterwards and the references of the nodes of
\* the returned array
HeapAggregateEndorsements(objects, endorsements) ==
  HeapAggregateFold(endorsements, 1, [objects |-> objects, map |-> << >>])

\* the first forEach of buildSkillGraph for credentials[i..]: a skill node
\* holds the evidence object of its credential itself (by reference, ref),
\* an endorsement node holds copies of the credential's values
RECURSIVE HeapExtract(_, _, _)
HeapExtract(credentials, i, st) ==
  IF i > Len(credentials) THEN st
  ELSE LET credential == st.objects[credentials[i]]
           at == Len(st.objects) + 1
       IN  IF credentialType(credential) = "SkillCredential"
           THEN HeapExtract(credentials, i + 1,
                  [st EXCEPT
                     !.objects = Append(@,
                        [skillName        |-> credential.credentialSubject.skillName,
                         proficiencyLevel |-> credential.credentialSubject.proficiencyLevel,
                         evidence         |-> [ref |-> credentials[i]],
                         verifiedAt       |-> credential.credentialSubject.verifiedAt]),
                     !.skills = Append(@, at)])
           ELSE IF credentialType(credential) = "EndorsementCredential"
           THEN HeapExtract(credentials, i + 1,
                  [st EXCEPT
                     !.objects = Append(@,
                        [skillName    |-> credential.credentialSubject.endorsedSkill,
                         endorserType |-> credential.credentialSubject.endorserType,
                         rating       |-> FromInt(credential.credentialSubject.rating),
                         count        |-> 1]),
                     !.endorsements = Append(@, at)])
           ELSE HeapExtract(credentials, i + 1, st)

\* the skill node at reference s with its evidence object read from the heap
SkillNodeAt(objects, s) ==
  [objects[s] EXCEPT
     !.evidence = objects[objects[s].evidence.ref].credentialSubject.evidence]

\* the value of the graph whose arrays hold the references in st
GraphValue(st) ==
  LET skills == [k \in 1..Len(st.skills) |-> SkillNodeAt(st.objects, st.skills[k])]
  IN  [skills       |-> skills,
       connections  |-> Connect(skills, 1, 2),
       endorsements |-> [k \in 1..Len(st.endorsements) |->
                           st.objects[st.endorsements[k]]]]

\* buildSkillGraph(credentials) with credentials the references of the
\* credentials: the heap afterwards and the references held by the skills
\* and endorsements arrays (the connections are new objects nothing else
\* refers to and are kept by value)
HeapBuildSkillGraph(objects, credentials) ==
  HeapExtract(credentials, 1,
              [objects |-> objects, skills |-> << >>, endorsements |-> << >>])

\* ------------------------------------------------------------------------
\* Credentials as CredentialFactory builds them (the fields the engine reads)
\* ------------------------------------------------------------------------
DevPortfolioCredential(reputationScore) ==
  [type |-> << "VerifiableCredential", "DevPortfolioCredential" >>,
   credentialSubject |-> [reputationScore |-> reputationScore]]

SkillCredential(skillName, proficiencyLevel, commits, linesOfCode, projects) ==
  [type |-> << "VerifiableCredential", "SkillCredential" >>,
   credentialSubject |->
     [skillName        |-> skillName,
      proficiencyLevel |-> proficiencyLevel,
      evidence         |-> [commits     |-> commits,
                            linesOfCode |-> linesOfCode,
                            projects    |-> projects],
      verifiedAt       |-> "2024-01-01T00:00:00.000Z"]]

ProjectCredential(commits) ==
  [type |-> << "VerifiableCredential", "ProjectCredential" >>,
   credentialSubject |-> [contributionMetrics |-> [commits |-> commits]]]

CommunityBadgeCredential(badgeName) ==
  [type |-> << "VerifiableCredential", "CommunityBadgeCredential" >>,
   credentialSubject |-> [badgeName |-> badgeName]]

EndorsementCredential(endorsedSkill, endorserType, rating) ==
  [type |-> << "VerifiableCredential", "EndorsementCredential" >>,
   credentialSubject |-> [endorsedSkill |-> endorsedSkill,
                          endorserType  |-> endorserType,
                          rating        |-> rating]]

\* a credential whose type array names nothing beyond "VerifiableCredential"
UntypedCredential ==
  [type |-> << "VerifiableCredential" >>,
   credentialSubject |-> [id |-> "did:moca:subject"]]

ProficiencyLevels == {"Beginner", "Intermediate", "Advanced", "Expert"}

\* ------------------------------------------------------------------------
\* Bounds and the inputs the operations are called with
\* ------------------------------------------------------------------------
MaxForks == 2
MaxProjectCount == 6
MaxCredentials == 3
MaxEndorsements == 3
MaxGraphCredentials == 3
MaxSessionCredentials == 2
MaxCalls == 2

SeqsUpTo(S, n) == UNION {[1..k -> S] : k \in 0..n}

\* activity snapshots: zero, values below, at and above each cap, and values
\* whose contribution has a fractional part
SnapshotValues ==
  [followers         |-> {0, 100, 1000},
   totalStars        |-> {0, 5, 15, 1996, 2000, 2005, 1000000},
   totalRepositories |-> {0, 74, 1000},
   accountAge        |-> {0, 73, 200, 365, 3649, 3650, 36500},
   recentActivity    |-> {0, 7, 1000},
   totalForks        |-> (0..MaxForks) \cup {99, 100, 101, 1000}]

Snapshots ==
  [followers         : SnapshotValues.followers,
   totalStars        : SnapshotValues.totalStars,
   totalRepositories : SnapshotValues.totalRepositories,
   accountAge        : SnapshotValues.accountAge,
   recentActivity    : SnapshotValues.recentActivity,
   totalForks        : SnapshotValues.totalForks]

\* activity snapshots that also hold negative values: accountAge is negative
\* when created_at lies after the local clock, the other fields are taken
\* from the API response as they come
SignedSnapshots ==
  [followers         : {-5, 0, 10},
   totalStars        : {-20, 0, 30},
   totalRepositories : {-1, 0, 3},
   accountAge        : {-365, 0, 730},
   recentActivity    : {-2, 0, 4},
   totalForks        : {-4, 0, 6}]

ProjectNames == << "moca", "airkit", "wallet", "bridge", "dex", "nft", "dao", "sdk" >>

EvidenceValues ==
  [commits     |-> {0, 18, 50, 90, 100, 150},
   linesOfCode |-> {0, 4300, 7200, 9600, 10000, 12000}]

SkillInputs ==
  { SkillCredential("TypeScript", lvl, c, l, SubSeq(ProjectNames, 1, n)) :
      lvl \in ProficiencyLevels,
      c \in EvidenceValues.commits,
      l \in EvidenceValues.linesOfCode,
      n \in 0..MaxProjectCount }

\* a record holding field name with value v[1], or no field when v is empty
Optional(name, v) == IF v = << >> THEN << >> ELSE name :> v[1]

\* skill credentials whose evidence may lack commits, linesOfCode or projects,
\* or that carry no evidence at all
MalformedSkillInputs ==
  { [type |-> << "VerifiableCredential", "SkillCredential" >>,
     credentialSubject |->
       [skillName |-> "TypeScript", proficiencyLevel |-> lvl]
         @@ Optional("evidence", e)] :
      lvl \in ProficiencyLevels,
      e \in {<< >>}
            \cup { << Optional("commits", c) @@ Optional("linesOfCode", l)
                       @@ Optional("projects", p) >> :
                     c \in {<< >>, <<0>>, <<50>>},
                     l \in {<< >>, <<0>>, <<5000>>},
                     p \in {<< >>, << << >> >>, << << "moca", "airkit" >> >>} } }

TrustPool ==
  { DevPortfolioCredential(1),
    DevPortfolioCredential(100),
    SkillCredential("TypeScript", "Expert", 100, 10000, SubSeq(ProjectNames, 1, 5)),
    ProjectCredential(215),
    ProjectCredential(2000),
    EndorsementCredential("TypeScript", "Peer", 1),
    EndorsementCredential("TypeScript", "Mentor", 5),
    CommunityBadgeCredential("Mocaverse Contributor"),
    UntypedCredential }

TrustInputs == SeqsUpTo(TrustPool, MaxCredentials)

EndorsementPool ==
  { EndorsementCredential("TypeScript", "Peer", 3),
    EndorsementCredential("TypeScript", "Mentor", 5),
    EndorsementCredential("TypeScript", "Employer", 2),
    EndorsementCredential("Solidity", "Peer", 5),
    EndorsementCredential("Solidity", "Community", 1),
    EndorsementCredential("Rust", "Mentor", 4) }

\* one skill endorsed eight times
ManyRatings == << 1, 3, 5, 5, 5, 5, 5, 1 >>

ManyEndorsements ==
  [k \in 1..Len(ManyRatings) |-> EndorsementCredential("TypeScript", "Peer", ManyRatings[k])]

EndorsementInputs ==
  SeqsUpTo(EndorsementPool, MaxEndorsements) \cup {ManyEndorsements}

GraphPool ==
  { SkillCredential("TypeScript", "Expert", 100, 10000, << "moca", "airkit", "wallet" >>),
    SkillCredential("Solidity", "Advanced", 40, 2000,
                    << "wallet", "moca", "bridge", "airkit", "dex" >>),
    SkillCredential("Rust", "Beginner", 3, 100, << "moca" >>),
    SkillCredential("Go", "Intermediate", 10, 500, << >>),
    SkillCredential("Python", "Advanced", 60, 9000, << "moca", "moca", "dex" >>),
    EndorsementCredential("TypeScript", "Peer", 4),
    EndorsementCredential("TypeScript", "Mentor", 5),
    DevPortfolioCredential(80) }

GraphInputs == SeqsUpTo(GraphPool, MaxGraphCredentials)

SessionPool ==
  { SkillCredential("TypeScript", "Expert", 100, 10000, << "moca", "airkit" >>),
    EndorsementCredential("TypeScript", "Peer", 3),
    EndorsementCredential("TypeScript", "Mentor", 5),
    DevPortfolioCredential(80) }

SessionInputs == SeqsUpTo(SessionPool, MaxSessionCredentials)

\* ------------------------------------------------------------------------
\* The calls.  A call is made with an argument (pc = "called") and returns a
\* value (pc = "returned"); the operations keep no state of their own, so a
\* behaviour is one call from its argument to its result.
\* ------------------------------------------------------------------------
VARIABLES pc, op, arg, ret, heap, returns

vars == << pc, op, arg, ret, heap, returns >>

Called(name, inputs) ==
  /\ pc = "called"
  /\ op = name
  /\ arg \in inputs
  /\ ret = << >>
  /\ heap = << >>
  /\ returns = << >>

Returns(name, value) ==
  /\ pc = "called"
  /\ op = name
  /\ pc' = "returned"
  /\ ret' = value
  /\ UNCHANGED << op, arg, heap, returns >>

InitReputation == Called("calculateReputationScore", Snapshots)
InitReputationSigned == Called("calculateReputationScore", SignedSnapshots)
InitSkill == Called("calculateSkillScore", SkillInputs)
InitSkillMalformed == Called("calculateSkillScore", MalformedSkillInputs)
InitTrust == Called("calculateTrustScore", TrustInputs)
InitEndorse == Called("aggregateEndorsements", EndorsementInputs)
InitGraph == Called("buildSkillGraph", GraphInputs)

CallReputationScore == Returns("calculateReputationScore", calculateReputationScore(arg))
CallSkillScore == Returns("calculateSkillScore", calculateSkillScore(arg))
CallSkillScoreOutcome == Returns("calculateSkillScore", SkillScoreOutcome(arg))
CallTrustScore == Returns("calculateTrustScore", calculateTrustScore(arg))
CallAggregateEndorsements == Returns("aggregateEndorsements", aggregateEndorsements(arg))
CallBuildSkillGraph == Returns("buildSkillGraph", buildSkillGraph(arg))

SpecReputation == InitReputation /\ [][CallReputationScore]_vars
SpecReputationSigned == InitReputationSigned /\ [][CallReputationScore]_vars
SpecSkill == InitSkill /\ [][CallSkillScore]_vars
SpecSkillMalformed == InitSkillMalformed /\ [][CallSkillScoreOutcome]_vars
SpecTrust == InitTrust /\ [][CallTrustScore]_vars
SpecEndorse == InitEndorse /\ [][CallAggregateEndorsements]_vars
SpecGraph == InitGraph /\ [][CallBuildSkillGraph]_vars

Done(name) == pc = "returned" /\ op = name

\* ------------------------------------------------------------------------
\* A session with one engine: the credentials of a list are put on the heap
\* (arg keeps the list as it was passed, heap[i] is the object of arg[i]) and
\* the four operations are called on them, in any order and repeatedly.  The
\* engine object has no fields.  returns records what every call returned,
\* by value as it was at the return.
\* ------------------------------------------------------------------------
InitSession ==
  /\ pc = "called"
  /\ op = "ReputationEngine"
  /\ arg \in SessionInputs
  /\ ret = << >>
  /\ heap = arg
  /\ returns = << >>

\* a call returns value, leaving objects as the heap
SessionReturns(name, on, value, objects) ==
  /\ Len(returns) < MaxCalls
  /\ pc' = "returned"
  /\ op' = name
  /\ ret' = value
  /\ heap' = objects
  /\ returns' = Append(returns, [op |-> name, on |-> on, value |-> value])
  /\ UNCHANGED arg

SessionSkillScore ==
  \E i \in 1..Len(arg) :
    /\ credentialType(heap[i]) = "SkillCredential"
    /\ SessionReturns("calculateSkillScore", << i >>,
                      calculateSkillScore(heap[i]), heap)

SessionTrustScore ==
  SessionReturns("calculateTrustScore", [i \in 1..Len(arg) |-> i],
                 calculateTrustScore([i \in 1..Len(arg) |-> heap[i]]), heap)

SessionAggregateEndorsements ==
  LET endorsements ==
        SelectSeq([i \in 1..Len(arg) |-> i],
                  LAMBDA i : credentialType(heap[i]) = "EndorsementCredential")
      st == HeapAggregateEndorsements(heap, endorsements)
  IN  SessionReturns("aggregateEndorsements", endorsements,
                     [k \in 1..Len(st.map) |-> st.objects[st.map[k]]],
                     st.objects)

SessionBuildSkillGraph ==
  LET st == HeapBuildSkillGraph(heap, [i \in 1..Len(arg) |-> i])
  IN  SessionReturns("buildSkillGraph", [i \in 1..Len(arg) |-> i],
                     GraphValue(st), st.objects)

NextSession ==
  \/ SessionSkillScore
  \/ SessionTrustScore
  \/ SessionAggregateEndorsements
  \/ SessionBuildSkillGraph

SpecSession == InitSession /\ [][NextSession]_vars

\* ------------------------------------------------------------------------
\* Concurrent invocations.  MaxInvocations callers invoke operations of one
\* engine on one credential list (calculateReputationScore on a metrics
\* object).  An invocation advances by one step at a time, a step being the
\* set-up of its local variables, one iteration of its loop, or its return;
\* the steps of different invocations interleave in any order, the
\* run-to-completion order of synchronous calls being one of them.  heap is
\* the shared heap of objects, returns[p] the position and the result of
\* invocation p, and ret the cells that hold the local variables of the
\* invocations.
\* ------------------------------------------------------------------------
MaxInvocations == 2

\* let score = 0, let weight = 0; new Map(); const skills = [], endorsements = []
FreshLocals ==
  [score |-> NumZero, weight |-> NumZero, map |-> << >>,
   skills |-> << >>, endorsements |-> << >>]

\* one cell of local variables for all invocations, as fields of the engine
\* would be
LocalsOf_shared(p) == 1

\* the cell holding the local variables of invocation p: its own
LocalsOf(p) == p

\* the invocations that can be made on a credential list
ConcurrentCalls(credentials) ==
  [op : {"calculateReputationScore", "calculateTrustScore",
         "aggregateEndorsements", "buildSkillGraph"},
   on : {0}]
    \cup [op : {"calculateSkillScore"},
          on : {i \in 1..Len(credentials) :
                  credentialType(credentials[i]) = "SkillCredential"}]

\* the place of an invocation in a fixed order of the invocations; the
\* callers being alike, the invocations are listed in this order
CallRank(call) ==
  10 * (CASE call.op = "calculateReputationScore" -> 1
          [] call.op = "calculateSkillScore" -> 2
          [] call.op = "calculateTrustScore" -> 3
          [] call.op = "aggregateEndorsements" -> 4
          [] call.op = "buildSkillGraph" -> 5)
    + call.on

ConcurrentInputs ==
  UNION { [credentials : {credentials},
           metrics : {[followers |-> 100, totalStars |-> 15,
                       totalRepositories |-> 74, accountAge |-> 200,
                       recentActivity |-> 7, totalForks |-> 1]},
           calls : { calls \in [1..MaxInvocations -> ConcurrentCalls(credentials)] :
                       \A p \in 1..(MaxInvocations - 1) :
                         CallRank(calls[p]) <= CallRank(calls[p + 1]) }] :
          credentials \in
            { << SkillCredential("TypeScript", "Expert", 100, 10000,
                                 << "moca", "airkit" >>),
                 EndorsementCredential("TypeScript", "Peer", 3),
                 EndorsementCredential("TypeScript", "Mentor", 5) >>,
              << SkillCredential("TypeScript", "Expert", 100, 10000,
                                 << "moca", "airkit" >>),
                 SkillCredential("Solidity", "Advanced", 40, 2000,
                                 << "wallet", "moca" >>),
                 DevPortfolioCredential(80) >> } }

InitConcurrent ==
  /\ pc = "running"
  /\ op = "ReputationEngine"
  /\ arg \in ConcurrentInputs
  /\ ret = [p \in 1..MaxInvocations |-> FreshLocals]
  /\ heap = arg.credentials
  /\ returns = [p \in 1..MaxInvocations |-> [i |-> 0, result |-> << >>]]

\* the references of the endorsement credentials, the array passed to
\* aggregateEndorsements
Endorsed ==
  SelectSeq([i \in 1..Len(arg.credentials) |-> i],
            LAMBDA i : credentialType(arg.credentials[i]) = "EndorsementCredential")

\* the number of iterations of the loop of invocation p
LoopLength(p) ==
  CASE arg.calls[p].op \in {"calculateTrustScore", "buildSkillGraph"} ->
         Len(arg.credentials)
    [] arg.calls[p].op = "aggregateEndorsements" -> Len(Endorsed)
    [] OTHER -> 0

\* invocation p takes a step that leaves cell as its local variables and
\* objects as the heap, returning result when result is not empty
Step(p, cell, objects, result) ==
  /\ pc = "running"
  /\ returns' = [returns EXCEPT ![p] = [i |-> @.i + 1, result |-> result]]
  /\ ret' = [ret EXCEPT ![LocalsOf(p)] = cell]
  /\ heap' = objects
  /\ UNCHANGED << pc, op, arg >>

\* invocation p is at iteration i of the loop of operation name
Iterating(p, name) ==
  /\ arg.calls[p].op = name
  /\ returns[p].i \in 1..LoopLength(p)

\* invocation p of operation name has left its loop and not yet returned
Returning(p, name) ==
  /\ arg.calls[p].op = name
  /\ returns[p].i = LoopLength(p) + 1
  /\ returns[p].result = << >>

Begin ==
  \E p \in 1..MaxInvocations :
    /\ returns[p].i = 0
    /\ Step(p, FreshLocals, heap, << >>)

TrustIterate ==
  \E p \in 1..MaxInvocations :
    /\ Iterating(p, "calculateTrustScore")
    /\ \E acc \in { TrustStep([score |-> ret[LocalsOf(p)].score,
                               weight |-> ret[LocalsOf(p)].weight],
                              heap[returns[p].i]) } :
         Step(p, [ret[LocalsOf(p)] EXCEPT !.score = acc.score,
                                          !.weight = acc.weight],
              heap, << >>)

TrustReturn ==
  \E p \in 1..MaxInvocations :
    /\ Returning(p, "calculateTrustScore")
    /\ Step(p, ret[LocalsOf(p)], heap,
            << IF NumLt(NumZero, ret[LocalsOf(p)].weight)
               THEN MathRound(NumDiv(ret[LocalsOf(p)].score,
                                     ret[LocalsOf(p)].weight))
               ELSE 0 >>)

AggregateIterate ==
  \E p \in 1..MaxInvocations :
    /\ Iterating(p, "aggregateEndorsements")
    /\ \E st \in { HeapAggregateStep([objects |-> heap,
                                      map |-> ret[LocalsOf(p)].map],
                                     Endorsed[returns[p].i]) } :
         Step(p, [ret[LocalsOf(p)] EXCEPT !.map = st.map], st.objects, << >>)

AggregateReturn ==
  \E p \in 1..MaxInvocations :
    /\ Returning(p, "aggregateEndorsements")
    /\ Step(p, ret[LocalsOf(p)], heap,
            << [k \in 1..Len(ret[LocalsOf(p)].map) |->
                  heap[ret[LocalsOf(p)].map[k]]] >>)

GraphIterate ==
  \E p \in 1..MaxInvocations :
    /\ Iterating(p, "buildSkillGraph")
    /\ \E st \in { HeapExtract(<< returns[p].i >>, 1,
                               [objects |-> heap,
                                skills |-> ret[LocalsOf(p)].skills,
                                endorsements |-> ret[LocalsOf(p)].endorsements]) } :
         Step(p, [ret[LocalsOf(p)] EXCEPT !.skills = st.skills,
                                          !.endorsements = st.endorsements],
              st.objects, << >>)

GraphReturn ==
  \E p \in 1..MaxInvocations :
    /\ Returning(p, "buildSkillGraph")
    /\ Step(p, ret[LocalsOf(p)], heap,
            << GraphValue([objects |-> heap,
                           skills |-> ret[LocalsOf(p)].skills,
                           endorsements |-> ret[LocalsOf(p)].endorsements]) >>)

SkillScoreReturn ==
  \E p \in 1..MaxInvocations :
    /\ Returning(p, "calculateSkillScore")
    /\ Step(p, ret[LocalsOf(p)], heap,
            << calculateSkillScore(heap[arg.calls[p].on]) >>)

ReputationScoreReturn ==
  \E p \in 1..MaxInvocations :
    /\ Returning(p, "calculateReputationScore")
    /\ Step(p, ret[LocalsOf(p)], heap, << calculateReputationScore(arg.metrics) >>)

NextConcurrent ==
  \/ Begin
  \/ TrustIterate
  \/ TrustReturn
  \/ AggregateIterate
  \/ AggregateReturn
  \/ GraphIterate
  \/ GraphReturn
  \/ SkillScoreReturn
  \/ ReputationScoreReturn

SpecConcurrent == InitConcurrent /\ [][NextConcurrent]_vars

\* ------------------------------------------------------------------------
\* Properties of calculateReputationScore
\* ------------------------------------------------------------------------
Min(a, b) == IF a < b THEN a ELSE b

\* 730 times the real-valued sum of the six capped contributions: 730 is the
\* common denominator of stars/10, 10*days/365 and forks/2
ExactReputation730(m) ==
    730 * Min(m.followers, 100)
  + Min(73 * m.totalStars, 730 * 200)
  + 730 * Min(2 * m.totalRepositories, 150)
  + Min(20 * m.accountAge, 730 * 100)
  + 730 * Min(2 * m.recentActivity, 100)
  + Min(365 * m.totalForks, 730 * 50)

\* r is the integer nearest to num/den, a half rounding up
IsRoundHalfUp(r, num, den) ==
  /\ (2 * r - 1) * den <= 2 * num
  /\ 2 * num < (2 * r + 1) * den

NonNegativeSnapshot(m) ==
  /\ m.followers >= 0 /\ m.totalStars >= 0 /\ m.totalRepositories >= 0
  /\ m.accountAge >= 0 /\ m.recentActivity >= 0 /\ m.totalForks >= 0

\* C1: for a snapshot of non-negative integers the returned score is the
\* round-half-up of the real sum min(followers,100) + min(stars*0.1,200)
\* + min(repos*2,150) + min(days/365*10,100) + min(recent*2,100)
\* + min(forks*0.5,50)
C1_ReputationIsRoundedSum ==
  (Done("calculateReputationScore") /\ NonNegativeSnapshot(arg))
    => IsRoundHalfUp(ret, ExactReputation730(arg), 730)

\* a call returned for a snapshot whose real sum lies exactly half way between
\* two integers, with a contribution below its cap
C1_Witness ==
  /\ Done("calculateReputationScore")
  /\ (2 * ExactReputation730(arg)) % 1460 = 730
  /\ arg.accountAge = 73
  /\ arg.totalStars = 15

AllZero(m) ==
  /\ m.followers = 0 /\ m.totalStars = 0 /\ m.totalRepositories = 0
  /\ m.accountAge = 0 /\ m.recentActivity = 0 /\ m.totalForks = 0

AllAtCap(m) ==
  /\ m.followers >= 100 /\ m.totalStars >= 2000 /\ m.totalRepositories >= 75
  /\ m.accountAge >= 3650 /\ m.recentActivity >= 50 /\ m.totalForks >= 100

\* C2: for non-negative snapshots the score lies in 0..700, is 0 for the
\* all-zero snapshot and is 700 when every component is at or above its cap
\* (so the score is not clamped to 0..100)
C2_ReputationRange ==
  (Done("calculateReputationScore") /\ NonNegativeSnapshot(arg))
    => /\ ret \in 0..700
       /\ AllZero(arg) => ret = 0
       /\ AllAtCap(arg) => ret = 700

\* a call returned 700, above the 0-100 scale, with every component capped
C2_Witness ==
  /\ Done("calculateReputationScore")
  /\ AllAtCap(arg)
  /\ arg.totalStars = 1000000
  /\ ret = 700
  /\ ret > 100

\* ------------------------------------------------------------------------
\* Properties of calculateSkillScore
\* ------------------------------------------------------------------------
LevelBase(level) ==
  CASE level = "Beginner"     -> 25
    [] level = "Intermediate" -> 50
    [] level = "Advanced"     -> 75
    [] level = "Expert"       -> 100

\* 50000 times the real-valued evidence multiplier
\* 0.4 + 0.2*min(c/100,1) + 0.2*min(l/10000,1) + 0.2*min(p/5,1)
ExactMultiplier50000(evidence) ==
    20000
  + Min(100 * evidence.commits, 10000)
  + Min(evidence.linesOfCode, 10000)
  + Min(2000 * Len(evidence.projects), 10000)

\* 50000 times the real value min(base * multiplier, 100)
ExactSkill50000(subject) ==
  Min(LevelBase(subject.proficiencyLevel) * ExactMultiplier50000(subject.evidence),
      50000 * 100)

ValidSkill(c) ==
  /\ c.credentialSubject.proficiencyLevel \in ProficiencyLevels
  /\ c.credentialSubject.evidence.commits >= 0
  /\ c.credentialSubject.evidence.linesOfCode >= 0

\* C3: for each level and non-negative evidence the returned score is
\* round(min(base * (0.4 + 0.2*min(commits/100,1) + 0.2*min(loc/10000,1)
\* + 0.2*min(|projects|/5,1)), 100)), the rounding being to the nearest
\* integer with a half rounding up
C3_SkillIsRoundedProduct ==
  (Done("calculateSkillScore") /\ ValidSkill(arg))
    => IsRoundHalfUp(ret, ExactSkill50000(arg.credentialSubject), 50000)

\* C4: for each level with base b and non-negative evidence the score is an
\* integer in floor(0.4*b)..b, and Expert with 100 commits, 10000 lines and 5
\* projects scores exactly 100
C4_SkillRange ==
  (Done("calculateSkillScore") /\ ValidSkill(arg))
    => LET s == arg.credentialSubject
           b == LevelBase(s.proficiencyLevel)
       IN  /\ ret \in ((4 * b) \div 10)..b
           /\ ( /\ s.proficiencyLevel = "Expert"
                /\ s.evidence.commits = 100
                /\ s.evidence.linesOfCode = 10000
                /\ Len(s.evidence.projects) = 5 ) => ret = 100

\* the Expert call with full evidence returned 100
C4_Witness ==
  /\ Done("calculateSkillScore")
  /\ arg.credentialSubject.proficiencyLevel = "Expert"
  /\ arg.credentialSubject.evidence.commits = 100
  /\ arg.credentialSubject.evidence.linesOfCode = 10000
  /\ Len(arg.credentialSubject.evidence.projects) = 5
  /\ ret = 100

\* ------------------------------------------------------------------------
\* Properties of calculateTrustScore
\* ------------------------------------------------------------------------
CountedKinds ==
  {"DevPortfolioCredential", "SkillCredential", "ProjectCredential",
   "EndorsementCredential"}

IsCounted(c) == credentialType(c) \in CountedKinds

\* the weight of a credential's kind, in tenths
Weight10(c) ==
  CASE credentialType(c) = "DevPortfolioCredential" -> 4
    [] credentialType(c) = "SkillCredential"        -> 3
    [] credentialType(c) = "ProjectCredential"      -> 2
    [] credentialType(c) = "EndorsementCredential"  -> 1
    [] OTHER                                        -> 0

\* ten times the real-valued score of a credential: reputationScore, the
\* skill score, min(commits*0.1, 100), rating*20
OwnScore10(c) ==
  CASE credentialType(c) = "DevPortfolioCredential" ->
         10 * c.credentialSubject.reputationScore
    [] credentialType(c) = "SkillCredential" -> 10 * calculateSkillScore(c)
    [] credentialType(c) = "ProjectCredential" ->
         Min(c.credentialSubject.contributionMetrics.commits, 1000)
    [] credentialType(c) = "EndorsementCredential" ->
         200 * c.credentialSubject.rating
    [] OTHER -> 0

RECURSIVE SumOver(_, _, _)
SumOver(F(_), cs, i) ==
  IF i > Len(cs) THEN 0 ELSE F(cs[i]) + SumOver(F, cs, i + 1)

WeightedScore100(cs) ==
  LET Term(c) == Weight10(c) * OwnScore10(c) IN SumOver(Term, cs, 1)

TotalWeight10(cs) == SumOver(Weight10, cs, 1)

\* C5: the result is round(score / weight) of the accumulated weighted scores
\* and weights when the weight is positive, so a list of one credential
\* returns that credential's own score rounded (a portfolio of 100 gives 100)
C5_TrustIsRoundedAverage ==
  (Done("calculateTrustScore") /\ TotalWeight10(arg) > 0)
    => /\ IsRoundHalfUp(ret, WeightedScore100(arg), 10 * TotalWeight10(arg))
       /\ Len(arg) = 1 => IsRoundHalfUp(ret, OwnScore10(arg[1]), 10)

\* C6: credentials of no counted kind are skipped: the result is that of the
\* list with all of them removed, and a list holding none of the counted
\* kinds (the empty list included) yields 0
C6_OtherKindsSkipped ==
  Done("calculateTrustScore")
    => /\ ret = calculateTrustScore(SelectSeq(arg, IsCounted))
       /\ (\A i \in 1..Len(arg) : ~IsCounted(arg[i])) => ret = 0

\* a call returned a positive score for a list mixing counted credentials
\* with a community badge, and the badge-only list was called too
C6_Witness ==
  /\ Done("calculateTrustScore")
  /\ Len(arg) = 3
  /\ credentialType(arg[1]) = "DevPortfolioCredential"
  /\ credentialType(arg[2]) = "CommunityBadgeCredential"
  /\ credentialType(arg[3]) = "undefined"
  /\ ret = 100

\* ------------------------------------------------------------------------
\* Properties of aggregateEndorsements
\* ------------------------------------------------------------------------
EndorsedSkill(e) == e.credentialSubject.endorsedSkill

\* the positions of es holding an endorsement of skill
PositionsOf(es, skill) == {i \in 1..Len(es) : EndorsedSkill(es[i]) = skill}

\* the positions at which a skill occurs for the first time
FirstPositions(es) ==
  {i \in 1..Len(es) : \A j \in 1..(i - 1) : EndorsedSkill(es[j]) # EndorsedSkill(es[i])}

\* the k-th smallest element of a set of positions
Nth(S, k) == CHOOSE i \in S : Cardinality({j \in S : j <= i}) = k

Lowest(S) == CHOOSE i \in S : \A j \in S : i <= j
Highest(S) == CHOOSE i \in S : \A j \in S : j <= i

\* C7: the result holds exactly one aggregate per distinct endorsed skill of
\* the input, in the order in which the skills first appear; the empty list
\* gives the empty list
C7_OnePerSkillInFirstAppearanceOrder ==
  Done("aggregateEndorsements")
    => /\ Len(ret) = Cardinality(FirstPositions(arg))
       /\ \A k \in 1..Len(ret) :
            ret[k].skillName = EndorsedSkill(arg[Nth(FirstPositions(arg), k)])
       /\ arg = << >> => ret = << >>

\* a call returned two aggregates for three endorsements, the skill seen
\* first being endorsed again after the second skill
C7_Witness ==
  /\ Done("aggregateEndorsements")
  /\ Len(arg) = 3
  /\ EndorsedSkill(arg[1]) = "Solidity"
  /\ EndorsedSkill(arg[2]) = "TypeScript"
  /\ EndorsedSkill(arg[3]) = "Solidity"
  /\ Len(ret) = 2
  /\ ret[1].skillName = "Solidity"

RECURSIVE SumRatings(_, _)
SumRatings(es, S) ==
  IF S = {} THEN 0
  ELSE LET i == Lowest(S)
       IN  es[i].credentialSubject.rating + SumRatings(es, S \ {i})

\* the number that stands for the mean of the ratings at positions S
MeanRating(es, S) == NumDiv(FromInt(SumRatings(es, S)), FromInt(Cardinality(S)))

RECURSIVE SumCounts(_, _)
SumCounts(nodes, k) ==
  IF k > Len(nodes) THEN 0 ELSE nodes[k].count + SumCounts(nodes, k + 1)

\* es with the entries at positions i and i + 1 exchanged
SwapAdjacent(es, i) ==
  [k \in 1..Len(es) |-> IF k = i THEN es[i + 1] ELSE IF k = i + 1 THEN es[i] ELSE es[k]]

\* the count and rating of every skill, without order and endorserType
Numbers(nodes) ==
  {[skillName |-> nodes[k].skillName, rating |-> nodes[k].rating,
    count |-> nodes[k].count] : k \in 1..Len(nodes)}

\* C8: every aggregate carries the number of input endorsements of its skill
\* and the arithmetic mean of their ratings; the counts add up to the input
\* length; exchanging two neighbours of the input (hence any permutation)
\* changes no count and no average
C8_CountAndMean ==
  Done("aggregateEndorsements")
    => /\ \A k \in 1..Len(ret) :
            LET S == PositionsOf(arg, ret[k].skillName)
            IN  /\ ret[k].count = Cardinality(S)
                /\ ret[k].rating = MeanRating(arg, S)
       /\ SumCounts(ret, 1) = Len(arg)
       /\ \A i \in 1..(Len(arg) - 1) :
            Numbers(aggregateEndorsements(SwapAdjacent(arg, i))) = Numbers(ret)

\* a call returned count 2 and average 4 for ratings 3 and 5 of one skill
C8_Witness ==
  /\ Done("aggregateEndorsements")
  /\ Len(arg) = 2
  /\ EndorsedSkill(arg[1]) = EndorsedSkill(arg[2])
  /\ arg[1].credentialSubject.rating = 3
  /\ arg[2].credentialSubject.rating = 5
  /\ Len(ret) = 1
  /\ ret[1].count = 2
  /\ ret[1].rating = FromInt(4)

Range(f) == {f[i] : i \in DOMAIN f}

\* the size of the intersection of the project-name sets of two skill nodes
CommonProjects(a, b) ==
  Cardinality(Range(a.evidence.projects) \cap Range(b.evidence.projects))

\* the pairs of positions i < j of skills that have a project name in common
LinkedPairs(skills) ==
  {p \in (1..Len(skills)) \X (1..Len(skills)) :
     p[1] < p[2] /\ CommonProjects(skills[p[1]], skills[p[2]]) > 0}

PairBefore(p, q) == p[1] < q[1] \/ (p[1] = q[1] /\ p[2] < q[2])

\* the k-th pair of S in the order of the nested loops
NthPair(S, k) == CHOOSE p \in S : Cardinality({q \in S : PairBefore(q, p)}) = k - 1

\* C10: for positions i < j of skills an edge exists exactly when the two
\* skills share a project name; it runs from skills[i].skillName to
\* skills[j].skillName, is "related" and has strength min(shared/3, 1) with
\* shared the size of the intersection of the two project-name sets, so the
\* strength is in (0,1] and is 1 from 3 shared projects on
C10_EdgesFromSharedProjects ==
  Done("buildSkillGraph")
    => LET skills == ret.skills
           pairs  == LinkedPairs(skills)
       IN  /\ Len(ret.connections) = Cardinality(pairs)
           /\ \A k \in 1..Len(ret.connections) :
                LET p == NthPair(pairs, k)
                    n == CommonProjects(skills[p[1]], skills[p[2]])
                    c == ret.connections[k]
                IN  /\ c.from = skills[p[1]].skillName
                    /\ c.to = skills[p[2]].skillName
                    /\ c.relationship = "related"
                    /\ c.strength = MathMin(NumDiv(FromInt(n), FromInt(3)), FromInt(1))
                    /\ NumLt(NumZero, c.strength)
                    /\ ~NumLt(FromInt(1), c.strength)
                    /\ n >= 3 => c.strength = FromInt(1)

NoRepeatedProject(skill) ==
  \A k, l \in 1..Len(skill.evidence.projects) :
     skill.evidence.projects[k] = skill.evidence.projects[l] => k = l

\* C10 on the graphs whose skills each list a project at most once
C10_WithoutRepeatedProjects ==
  (Done("buildSkillGraph") /\ \A i \in 1..Len(ret.skills) : NoRepeatedProject(ret.skills[i]))
    => C10_EdgesFromSharedProjects

IsEndorsement(c) == credentialType(c) = "EndorsementCredential"

\* C11: the endorsements field of the graph is aggregateEndorsements applied
\* to the EndorsementCredentials of the list in input order: one entry per
\* distinct endorsed skill with that skill's count and running-average rating
C11_EndorsementsAreAggregated ==
  Done("buildSkillGraph")
    => ret.endorsements = aggregateEndorsements(SelectSeq(arg, IsEndorsement))

IsSkill(c) == credentialType(c) = "SkillCredential"

\* C12: the skills field holds exactly one node per SkillCredential of the
\* input, in input order, with the credential's skillName, proficiencyLevel
\* and evidence; credentials of other kinds give no node, and the empty list
\* gives empty skills, connections and endorsements
C12_SkillsCopiedInOrder ==
  Done("buildSkillGraph")
    => LET sc == SelectSeq(arg, IsSkill)
       IN  /\ Len(ret.skills) = Len(sc)
           /\ \A k \in 1..Len(sc) :
                /\ ret.skills[k].skillName = sc[k].credentialSubject.skillName
                /\ ret.skills[k].proficiencyLevel
                     = sc[k].credentialSubject.proficiencyLevel
                /\ ret.skills[k].evidence = sc[k].credentialSubject.evidence
           /\ arg = << >>
                => /\ ret.skills = << >>
                   /\ ret.connections = << >>
                   /\ ret.endorsements = << >>

\* a call returned two skill nodes, in input order, for a list of two
\* different skill credentials with a portfolio credential between them
C12_Witness ==
  /\ Done("buildSkillGraph")
  /\ Len(arg) = 3
  /\ IsSkill(arg[1]) /\ ~IsSkill(arg[2]) /\ IsSkill(arg[3])
  /\ credentialType(arg[2]) = "DevPortfolioCredential"
  /\ arg[1].credentialSubject.skillName = "Solidity"
  /\ arg[3].credentialSubject.skillName = "TypeScript"
  /\ Len(ret.skills) = 2
  /\ ret.skills[1].skillName = "Solidity"
  /\ ret.skills[2].evidence.projects = << "moca", "airkit", "wallet" >>

\* ------------------------------------------------------------------------
\* calculateReputationScore on negative fields; monotonicity of the scores
\* ------------------------------------------------------------------------
Max(a, b) == IF a < b THEN b ELSE a

\* the snapshot with every negative field replaced by 0
NegativesZeroed(m) ==
  [followers         |-> Max(m.followers, 0),
   totalStars        |-> Max(m.totalStars, 0),
   totalRepositories |-> Max(m.totalRepositories, 0),
   accountAge        |-> Max(m.accountAge, 0),
   recentActivity    |-> Max(m.recentActivity, 0),
   totalForks        |-> Max(m.totalForks, 0)]

\* C13: a negative field of the snapshot counts as zero: the score is that of
\* the snapshot with its negative fields replaced by 0, so it is never below
\* 0 and never below what the non-negative fields alone give
C13_NegativeFieldsCountAsZero ==
  Done("calculateReputationScore")
    => /\ ret = calculateReputationScore(NegativesZeroed(arg))
       /\ ret >= 0

\* the values of S above v
Above(S, v) == {w \in S : w > v}

\* the snapshots that differ from m in one field only, that field holding
\* the next larger of the values the field is given
NextLarger(m) ==
  { [m EXCEPT ![f] = Lowest(Above(SnapshotValues[f], m[f]))] :
      f \in {g \in DOMAIN m : Above(SnapshotValues[g], m[g]) # {}} }

\* C15: on snapshots of non-negative fields the score is monotonically
\* non-decreasing in each field with the other five held fixed: raising one
\* field to its next larger value never lowers the score (every snapshot is
\* compared with each of its successors, so all pairs are covered step by
\* step)
C15_ReputationMonotone ==
  (Done("calculateReputationScore") /\ NonNegativeSnapshot(arg))
    => \A m \in NextLarger(arg) : ret <= calculateReputationScore(m)

\* a call returned for a snapshot whose score rises with more stars and
\* stays the same with more followers, these being at their cap
C15_Witness ==
  /\ Done("calculateReputationScore")
  /\ arg.totalStars = 5
  /\ arg.followers = 100
  /\ ret < calculateReputationScore([arg EXCEPT !.totalStars = 15])
  /\ ret = calculateReputationScore([arg EXCEPT !.followers = 1000])

\* the skill credentials that differ from c in one evidence field only:
\* commits or linesOfCode at its next larger value, or one more project
NextLargerEvidence(c) ==
  LET e == c.credentialSubject.evidence IN
    { [c EXCEPT !.credentialSubject.evidence[f]
                   = Lowest(Above(EvidenceValues[f], e[f]))] :
        f \in {g \in DOMAIN EvidenceValues : Above(EvidenceValues[g], e[g]) # {}} }
    \cup
    { [c EXCEPT !.credentialSubject.evidence.projects
                   = SubSeq(ProjectNames, 1, n)] :
        n \in {Len(e.projects) + 1} \cap (1..MaxProjectCount) }

\* C16: for a fixed level and non-negative evidence the skill score is
\* monotonically non-decreasing in commits, in linesOfCode and in the number
\* of projects, each with the other two held fixed: raising one of them to
\* its next larger value never lowers the score
C16_SkillMonotone ==
  (Done("calculateSkillScore") /\ ValidSkill(arg))
    => \A c \in NextLargerEvidence(arg) : ret <= calculateSkillScore(c)

\* a call returned for a credential whose score rises with more commits and
\* with one more project and stays the same with more lines, these being at
\* their cap
C16_Witness ==
  /\ Done("calculateSkillScore")
  /\ arg.credentialSubject.evidence.commits = 18
  /\ arg.credentialSubject.evidence.linesOfCode = 10000
  /\ Len(arg.credentialSubject.evidence.projects) = 2
  /\ Cardinality(NextLargerEvidence(arg)) = 3
  /\ ret < calculateSkillScore(
             [arg EXCEPT !.credentialSubject.evidence.commits = 50])
  /\ ret < calculateSkillScore(
             [arg EXCEPT !.credentialSubject.evidence.projects
                           = SubSeq(ProjectNames, 1, 3)])
  /\ ret = calculateSkillScore(
             [arg EXCEPT !.credentialSubject.evidence.linesOfCode = 12000])

\* ------------------------------------------------------------------------
\* Order of the credential list
\* ------------------------------------------------------------------------
\* C17: the trust score of a list is that of each of its permutations:
\* exchanging two neighbours of the list (hence any reordering) returns the
\* same number
C17_TrustOrderIndependent ==
  Done("calculateTrustScore")
    => \A i \in 1..(Len(arg) - 1) :
         calculateTrustScore(SwapAdjacent(arg, i)) = ret

\* ------------------------------------------------------------------------
\* Calls on one credential list
\* ------------------------------------------------------------------------
\* C18: however the four operations are called on a list, the list and
\* every credential in it stay as they were passed, and two calls of the
\* same operation on the same credentials returned equal outputs
C18_CallsLeaveInputAndRepeat ==
  /\ Len(heap) >= Len(arg)
  /\ \A i \in 1..Len(arg) : heap[i] = arg[i]
  /\ \A i, j \in 1..Len(returns) :
       (returns[i].op = returns[j].op /\ returns[i].on = returns[j].on)
         => returns[i].value = returns[j].value

\* aggregateEndorsements returned twice for a list with two endorsements of
\* one skill: the second endorsement was folded into the node of the first,
\* and the nodes of both calls are on the heap
C18_Witness ==
  /\ Len(returns) = 2
  /\ returns[1].op = "aggregateEndorsements"
  /\ returns[2].op = "aggregateEndorsements"
  /\ Len(arg) = 2
  /\ returns[1].on = << 1, 2 >>
  /\ arg[1] # arg[2]
  /\ Len(returns[2].value) = 1
  /\ returns[2].value[1].count = 2
  /\ Len(heap) = Len(arg) + 2

\* what a call on the heap returns is what the operation gives for the
\* values of the credentials
HeapCallsAgree ==
  \A i \in 1..Len(returns) :
     /\ returns[i].op = "aggregateEndorsements"
          => returns[i].value = aggregateEndorsements(SelectSeq(arg, IsEndorsement))
     /\ returns[i].op = "buildSkillGraph"
          => returns[i].value = buildSkillGraph(arg)

\* ------------------------------------------------------------------------
\* Malformed input
\* ------------------------------------------------------------------------
\* the value of field name of record r, or default when r has no such field
FieldOr(r, name, default) == IF name \in DOMAIN r THEN r[name] ELSE default

\* the skill credential with every missing numeric field of its evidence set
\* to 0 and a missing projects collection (or a missing evidence) made empty
WithDefaults(c) ==
  LET subject == c.credentialSubject
      evidence == FieldOr(subject, "evidence", << >>)
  IN  SkillCredential(subject.skillName, subject.proficiencyLevel,
                      FieldOr(evidence, "commits", 0),
                      FieldOr(evidence, "linesOfCode", 0),
                      FieldOr(evidence, "projects", << >>))

\* C14: calculateSkillScore does not throw on a credential with missing
\* fields: a missing commits or linesOfCode counts as 0, a missing projects
\* collection as empty, and the number the defaults give is returned
C14_MissingFieldsCountAsZero ==
  Done("calculateSkillScore")
    => /\ ret.outcome # "TypeError"
       /\ ret.outcome = "number"
       /\ ret.value = calculateSkillScore(WithDefaults(arg))

\* ------------------------------------------------------------------------
\* ProofOfDev.sol: the soulbound token contract
\* ------------------------------------------------------------------------
\* The contract's storage is the record heap: the ERC721 base's _owners,
\* _tokenApprovals and _operatorApprovals, Ownable's _owner, and the
\* contract's own _tokenIdCounter, developerProfiles (the reputationScore
\* and isActive fields), walletToTokenId and githubToTokenId. Token id 0
\* in a mapping means "no token", as an unset uint256 does. op, arg and ret
\* hold the last transaction: its function, its msg.sender and arguments,
\* and "ok" or the revert reason. returns lists, by token id, the wallet
\* each successful mint was made to. A reverted transaction leaves the
\* storage as it was.

MaxTokens == 2

ZeroAddress == "0x0"
Wallets == {"0xA", "0xB"}
Addresses == Wallets \cup {ZeroAddress}
GithubUsernames == {"octocat", "torvalds"}
TokenIds == 1..MaxTokens

Storage0(deployer) ==
  [_owner |-> deployer,
   _owners |-> [t \in TokenIds |-> ZeroAddress],
   _tokenApprovals |-> [t \in TokenIds |-> ZeroAddress],
   _operatorApprovals |-> {},
   _tokenIdCounter |-> 0,
   developerProfiles |->
     [t \in TokenIds |->
        [githubUsername |-> "", reputationScore |-> 0, isActive |-> FALSE]],
   walletToTokenId |-> [w \in Addresses |-> 0],
   githubToTokenId |-> [g \in GithubUsernames |-> 0]]

\* constructor() ERC721("Proof of Dev", "POD") Ownable(): the deployer owns
\* the contract and no token exists
InitToken ==
  /\ pc = "deployed"
  /\ op = "constructor"
  /\ arg \in [sender : Wallets]
  /\ ret = "ok"
  /\ heap = Storage0(arg.sender)
  /\ returns = << >>

\* a transaction that ran function name with arguments args: it either
\* reverts with a reason, keeping the storage, or commits storage
Transaction(name, args, outcome, storage) ==
  /\ pc = "deployed"
  /\ op' = name
  /\ arg' = args
  /\ ret' = outcome
  /\ heap' = IF outcome = "ok" THEN storage ELSE heap
  /\ UNCHANGED pc

\* ERC721._exists
Exists(tokenId) == heap._owners[tokenId] # ZeroAddress

\* ERC721._isApprovedOrOwner, on an existing token
IsApprovedOrOwner(spender, tokenId) ==
  \/ heap._owners[tokenId] = spender
  \/ << heap._owners[tokenId], spender >> \in heap._operatorApprovals
  \/ heap._tokenApprovals[tokenId] = spender

\* _beforeTokenTransfer without its require
BeforeTokenTransfer_open(from, to) == TRUE

\* _beforeTokenTransfer: the require passes only for a mint or a burn
BeforeTokenTransfer(from, to) == from = ZeroAddress \/ to = ZeroAddress

\* the outcome of ERC721._transfer(from, to, tokenId) called by sender
\* through transferFrom or safeTransferFrom
TransferOutcome(sender, from, to, tokenId, accepted) ==
  IF ~Exists(tokenId) THEN "ERC721: invalid token ID"
  ELSE IF ~IsApprovedOrOwner(sender, tokenId)
    THEN "ERC721: caller is not token owner or approved"
  ELSE IF heap._owners[tokenId] # from
    THEN "ERC721: transfer from incorrect owner"
  ELSE IF to = ZeroAddress THEN "ERC721: transfer to the zero address"
  ELSE IF ~BeforeTokenTransfer(from, to) THEN "Token is non-transferable"
  ELSE IF ~accepted THEN "ERC721: transfer to non ERC721Receiver implementer"
  ELSE "ok"

\* the storage after ERC721._transfer moved tokenId to to
Transferred(to, tokenId) ==
  [heap EXCEPT !._owners[tokenId] = to,
               !._tokenApprovals[tokenId] = ZeroAddress]

\* mintDeveloperProfile without the check of the GitHub username
MintOutcome_anyUsername(sender, developer, username, accepted) ==
  IF sender # heap._owner THEN "Ownable: caller is not the owner"
  ELSE IF developer = ZeroAddress THEN "Invalid developer address"
  ELSE IF heap.walletToTokenId[developer] # 0
    THEN "Developer already has a profile"
  ELSE IF ~BeforeTokenTransfer(ZeroAddress, developer)
    THEN "Token is non-transferable"
  ELSE IF ~accepted THEN "ERC721: transfer to non ERC721Receiver implementer"
  ELSE "ok"

\* mintDeveloperProfile(developer, profile) external onlyOwner; accepted
\* is the answer of the receiver's onERC721Received to _safeMint
MintOutcome(sender, developer, username, accepted) ==
  IF sender # heap._owner THEN "Ownable: caller is not the owner"
  ELSE IF developer = ZeroAddress THEN "Invalid developer address"
  ELSE IF heap.walletToTokenId[developer] # 0
    THEN "Developer already has a profile"
  ELSE IF heap.githubToTokenId[username] # 0
    THEN "GitHub username already registered"
  ELSE IF ~BeforeTokenTransfer(ZeroAddress, developer)
    THEN "Token is non-transferable"
  ELSE IF ~accepted THEN "ERC721: transfer to non ERC721Receiver implementer"
  ELSE "ok"

Minted(developer, username, score) ==
  LET tokenId == heap._tokenIdCounter + 1
  IN  [heap EXCEPT !._tokenIdCounter = tokenId,
                   !.developerProfiles[tokenId] =
                       [githubUsername |-> username, reputationScore |-> score,
                        isActive |-> TRUE],
                   !.walletToTokenId[developer] = tokenId,
                   !.githubToTokenId[username] = tokenId,
                   !._owners[tokenId] = developer]

mintDeveloperProfile ==
  \E sender \in Wallets, developer \in Addresses, username \in GithubUsernames,
     score \in {0, 500}, accepted \in BOOLEAN :
    LET outcome == MintOutcome(sender, developer, username, accepted)
    IN  /\ heap._tokenIdCounter < MaxTokens
        /\ Transaction("mintDeveloperProfile",
                       [sender |-> sender, developer |-> developer,
                        githubUsername |-> username],
                       outcome, Minted(developer, username, score))
        /\ returns' = IF outcome = "ok" THEN Append(returns, developer)
                      ELSE returns

\* updateReputationScore(tokenId, newScore) external onlyOwner
updateReputationScore ==
  \E sender \in Wallets, tokenId \in TokenIds, newScore \in {0, 500} :
    /\ Transaction("updateReputationScore",
                   [sender |-> sender, tokenId |-> tokenId],
                   IF sender # heap._owner THEN "Ownable: caller is not the owner"
                   ELSE IF ~Exists(tokenId) THEN "Token does not exist"
                   ELSE IF ~heap.developerProfiles[tokenId].isActive
                     THEN "Profile is not active"
                   ELSE "ok",
                   [heap EXCEPT !.developerProfiles[tokenId].reputationScore = newScore])
    /\ UNCHANGED returns

\* ERC721.transferFrom(from, to, tokenId), inherited
transferFrom ==
  \E sender \in Wallets, from \in Addresses, to \in Addresses, tokenId \in TokenIds :
    /\ Transaction("transferFrom",
                   [sender |-> sender, from |-> from, to |-> to, tokenId |-> tokenId],
                   TransferOutcome(sender, from, to, tokenId, TRUE),
                   Transferred(to, tokenId))
    /\ UNCHANGED returns

\* ERC721.safeTransferFrom(from, to, tokenId), inherited; accepted is the
\* answer of the receiver's onERC721Received
safeTransferFrom ==
  \E sender \in Wallets, from \in Addresses, to \in Addresses, tokenId \in TokenIds,
     accepted \in BOOLEAN :
    /\ Transaction("safeTransferFrom",
                   [sender |-> sender, from |-> from, to |-> to, tokenId |-> tokenId],
                   TransferOutcome(sender, from, to, tokenId, accepted),
                   Transferred(to, tokenId))
    /\ UNCHANGED returns

\* approve(to, tokenId) public override: always reverts
approve ==
  \E sender \in Wallets, to \in Addresses, tokenId \in TokenIds :
    /\ Transaction("approve",
                   [sender |-> sender, to |-> to, tokenId |-> tokenId],
                   "Token is non-transferable", heap)
    /\ UNCHANGED returns

\* setApprovalForAll(operator, approved) public override: always reverts
setApprovalForAll ==
  \E sender \in Wallets, operator \in Addresses, approved \in BOOLEAN :
    /\ Transaction("setApprovalForAll",
                   [sender |-> sender, operator |-> operator, approved |-> approved],
                   "Token is non-transferable", heap)
    /\ UNCHANGED returns

\* Ownable.transferOwnership(newOwner), inherited
transferOwnership ==
  \E sender \in Wallets, newOwner \in Addresses :
    /\ Transaction("transferOwnership",
                   [sender |-> sender, newOwner |-> newOwner],
                   IF sender # heap._owner THEN "Ownable: caller is not the owner"
                   ELSE IF newOwner = ZeroAddress
                     THEN "Ownable: new owner is the zero address"
                   ELSE "ok",
                   [heap EXCEPT !._owner = newOwner])
    /\ UNCHANGED returns

\* Ownable.renounceOwnership(), inherited
renounceOwnership ==
  \E sender \in Wallets :
    /\ Transaction("renounceOwnership", [sender |-> sender],
                   IF sender # heap._owner THEN "Ownable: caller is not the owner"
                   ELSE "ok",
                   [heap EXCEPT !._owner = ZeroAddress])
    /\ UNCHANGED returns

NextToken ==
  \/ mintDeveloperProfile
  \/ updateReputationScore
  \/ transferFrom
  \/ safeTransferFrom
  \/ approve
  \/ setApprovalForAll
  \/ transferOwnership
  \/ renounceOwnership

SpecToken == InitToken /\ [][NextToken]_vars

\* the last transaction asked to move a token between two non-zero addresses
TransferBetweenWallets ==
  /\ op \in {"transferFrom", "safeTransferFrom"}
  /\ arg.from # ZeroAddress
  /\ arg.to # ZeroAddress

\* C19: ProofOfDev tokens are soulbound: after any sequence of contract
\* calls the owner of every minted token is the wallet it was minted to;
\* every transfer between two non-zero addresses reverts, and approve and
\* setApprovalForAll always revert
C19_Soulbound ==
  pc = "deployed"
    => /\ Len(returns) = heap._tokenIdCounter
       /\ \A tokenId \in 1..Len(returns) : heap._owners[tokenId] = returns[tokenId]
       /\ TransferBetweenWallets => ret # "ok"
       /\ op \in {"approve", "setApprovalForAll"} => ret # "ok"

\* a token was minted and its owner then asked to transfer it to another
\* wallet
C19_Witness ==
  /\ pc = "deployed"
  /\ TransferBetweenWallets
  /\ Exists(arg.tokenId)
  /\ arg.sender = heap._owners[arg.tokenId]
  /\ arg.from = arg.sender
  /\ arg.to # arg.from

\* the ids of the tokens that exist
MintedIds == {tokenId \in TokenIds : Exists(tokenId)}

\* the token ids, the owners, the usernames and the two lookup mappings agree
Registry ==
  /\ MintedIds = 1..heap._tokenIdCounter
  /\ heap._tokenIdCounter = Len(returns)
  /\ \A t \in MintedIds, u \in MintedIds :
       t # u => /\ heap._owners[t] # heap._owners[u]
                /\ heap.developerProfiles[t].githubUsername
                     # heap.developerProfiles[u].githubUsername
  /\ \A t \in MintedIds :
       /\ heap.walletToTokenId[heap._owners[t]] = t
       /\ heap.githubToTokenId[heap.developerProfiles[t].githubUsername] = t
  /\ \A w \in Addresses :
       heap.walletToTokenId[w] # 0
         => heap.walletToTokenId[w] \in MintedIds
              /\ heap._owners[heap.walletToTokenId[w]] = w
  /\ \A g \in GithubUsernames :
       heap.githubToTokenId[g] # 0
         => heap.githubToTokenId[g] \in MintedIds
              /\ heap.developerProfiles[heap.githubToTokenId[g]].githubUsername = g

\* a mint with these arguments is one by a non-owner, to the zero address,
\* to a wallet that has a profile, or for a registered username
MintRefused(args) ==
  \/ args.sender # heap._owner
  \/ args.developer = ZeroAddress
  \/ heap.walletToTokenId[args.developer] # 0
  \/ heap.githubToTokenId[args.githubUsername] # 0

\* C26: after any sequence of calls the minted tokens are the ids
\* 1..totalSupply(), totalSupply() is the number of successful mints, the
\* tokens have distinct owners and distinct GitHub usernames, and
\* walletToTokenId, githubToTokenId and hasProfile agree with the owners; a
\* mint by a non-owner, to the zero address, to a wallet that has a profile
\* or for a registered username reverts and changes nothing
C26_MintRegistry ==
  /\ []Registry
  /\ [][ (op' = "mintDeveloperProfile" /\ MintRefused(arg'))
           => (ret' # "ok" /\ heap' = heap /\ returns' = returns) ]_vars

\* one token exists and a mint for its GitHub username was refused
C26_Witness ==
  /\ pc = "deployed"
  /\ heap._tokenIdCounter = 1
  /\ op = "mintDeveloperProfile"
  /\ ret = "GitHub username already registered"
  /\ heap.githubToTokenId[arg.githubUsername] = 1
  /\ heap.walletToTokenId[arg.developer] = 0

\* ------------------------------------------------------------------------
\* POST /api/analyze-github and GitHubAnalyzer.analyzeDeveloper
\* ------------------------------------------------------------------------
\* A string that the code inspects is a sequence of one-character strings
\* (a username) or of words (an error message); String.includes on a
\* message finds a pattern as consecutive words. requestId and
\* processingTime, which every response carries, come from Math.random and
\* the clock and are left out of the responses.

MaxRepos == 2

Str(chars) == [type |-> "string", chars |-> chars]

\* !value
Falsy(value) ==
  \/ value.type = "undefined"
  \/ value.type = "string" /\ value.chars = << >>
  \/ value.type = "number" /\ value.value = 0

\* [a-zA-Z0-9]
Alnum ==
  {"a", "b", "c", "d", "e", "f", "g", "h", "i", "j", "k", "l", "m",
   "n", "o", "p", "q", "r", "s", "t", "u", "v", "w", "x", "y", "z",
   "A", "B", "C", "D", "E", "F", "G", "H", "I", "J", "K", "L", "M",
   "N", "O", "P", "Q", "R", "S", "T", "U", "V", "W", "X", "Y", "Z",
   "0", "1", "2", "3", "4", "5", "6", "7", "8", "9"}

\* /^[a-zA-Z0-9]([a-zA-Z0-9]|-(?=[a-zA-Z0-9])){0,38}$/.test(username)
UsernameFormat(chars) ==
  /\ Len(chars) >= 1
  /\ Len(chars) <= 1 + 38
  /\ chars[1] \in Alnum
  /\ \A i \in 2..Len(chars) :
       \/ chars[i] \in Alnum
       \/ chars[i] = "-" /\ i < Len(chars) /\ chars[i + 1] \in Alnum

\* message.includes(pattern)
Includes(message, pattern) ==
  \E i \in 0..(Len(message) - Len(pattern)) :
    \A j \in 1..Len(pattern) : message[i + j] = pattern[j]

\* the answers of the GitHub client: data, or one of the errors it raises
GitHub ==
  [Answered |-> [status |-> 200, message |-> << "OK" >>],
   NotFound |-> [status |-> 404, message |-> << "Not", "Found" >>],
   RateLimited |->
     [status |-> 403, message |-> << "API", "rate", "limit", "exceeded" >>],
   BadCredentials |-> [status |-> 401, message |-> << "Bad", "credentials" >>]]

\* the repositories listForUser returns
Repos(n) ==
  [i \in 1..n |-> [name |-> i, stargazers_count |-> 5 * i, forks_count |-> i]]

RECURSIVE SumField(_, _, _)
\* repos.reduce((sum, repo) => sum + (repo[field] ?? 0), 0), from position i
SumField(repos, field, i) ==
  IF i > Len(repos) THEN 0
  ELSE repos[i][field] + SumField(repos, field, i + 1)

\* the calls analyzeDeveloper makes to GitHub, in order, when github says
\* how each kind of call answers
GitHubCalls(github) ==
  IF github.getByUsername # GitHub.Answered THEN << "users.getByUsername" >>
  ELSE IF github.listForUser # GitHub.Answered
    THEN << "users.getByUsername", "repos.listForUser" >>
  ELSE IF github.listOrgs # GitHub.Answered
    THEN << "users.getByUsername", "repos.listForUser", "orgs.listForUser" >>
  ELSE << "users.getByUsername", "repos.listForUser", "orgs.listForUser" >>
       \o [i \in 1..github.public_repos |-> "repos.listLanguages"]
       \o [i \in 1..Min(github.public_repos, 10) |-> "repos.listCommits"]

\* the metrics analyzeDeveloper returns when the three profile calls succeed;
\* a failed listLanguages or listCommits call skips its repository
Metrics(github) ==
  LET repos == Repos(github.public_repos)
      perRepo == github.perRepo = GitHub.Answered
      snapshot ==
        [totalCommits |-> github.public_repos * 10,
         totalRepositories |-> github.public_repos,
         totalStars |-> SumField(repos, "stargazers_count", 1),
         totalForks |-> SumField(repos, "forks_count", 1),
         followers |-> github.followers,
         accountAge |-> github.elapsedMs \div (1000 * 60 * 60 * 24),
         recentActivity |-> IF perRepo THEN 2 * Min(Len(repos), 10) ELSE 0]
  IN  [totalCommits |-> snapshot.totalCommits,
       totalRepositories |-> snapshot.totalRepositories,
       totalStars |-> snapshot.totalStars,
       totalForks |-> snapshot.totalForks,
       languages |-> IF perRepo /\ Len(repos) > 0
                     THEN [l \in {"TypeScript"} |-> 1000 * Len(repos)]
                     ELSE << >>,
       organizations |-> << "moca" >>,
       contributions |-> github.public_repos,
       followers |-> github.followers,
       following |-> 3,
       accountAge |-> snapshot.accountAge,
       recentActivity |-> snapshot.recentActivity,
       reputationScore |-> calculateReputationScore(snapshot)]

\* the error of the first profile call that fails, GitHub.Answered when none does
FirstFailure(github) ==
  IF github.getByUsername # GitHub.Answered THEN github.getByUsername
  ELSE IF github.listForUser # GitHub.Answered THEN github.listForUser
  ELSE github.listOrgs

\* GitHubAnalyzer.analyzeDeveloper: the catch block replaces whatever was
\* thrown by new Error('Failed to analyze developer profile')
analyzeDeveloper(github) ==
  IF FirstFailure(github) = GitHub.Answered
  THEN [threw |-> FALSE, metrics |-> Metrics(github)]
  ELSE [threw |-> TRUE,
        message |-> << "Failed", "to", "analyze", "developer", "profile" >>]

Response(status, success, error) ==
  [status |-> status, success |-> success, error |-> error]

\* the catch block of lines 126-166, on the Error analyzeDeveloper threw
AnalysisFailed(username, message) ==
  IF Includes(message, << "404" >>)
  THEN Response(404, FALSE, << "GitHub user '", username.chars, "' not found" >>)
  ELSE IF Includes(message, << "403" >>) \/ Includes(message, << "rate", "limit" >>)
  THEN Response(429, FALSE, "GitHub API rate limit exceeded. Please try again later.")
  ELSE IF Includes(message, << "401" >>)
  THEN Response(401, FALSE, "GitHub authentication failed. Please re-authenticate.")
  ELSE Response(500, FALSE, "Failed to analyze GitHub profile")

\* Rejected with the session checked before the body is validated
Rejected_sessionFirst(request) ==
  IF request.body.kind # "object"
  THEN << Response(400, FALSE, "Invalid JSON in request body") >>
  ELSE IF request.session = "throws"
  THEN << Response(500, FALSE, "getServerSession failed") >>
  ELSE IF request.session = "null"
  THEN << Response(401, FALSE, "Not authenticated. Please sign in with GitHub.") >>
  ELSE IF request.session = "no accessToken"
  THEN << Response(401, FALSE, "GitHub access token not available. Please re-authenticate.") >>
  ELSE IF Falsy(request.body.username) \/ request.body.username.type # "string"
  THEN << Response(400, FALSE, "Username is required and must be a string") >>
  ELSE IF ~UsernameFormat(request.body.username.chars)
  THEN << Response(400, FALSE, "Invalid GitHub username format") >>
  ELSE IF ~request.env.GITHUB_CLIENT_ID \/ ~request.env.GITHUB_CLIENT_SECRET
  THEN << Response(500, FALSE, "GitHub OAuth not configured. Please set GITHUB_CLIENT_ID and GITHUB_CLIENT_SECRET.") >>
  ELSE IF request.octokit = "throws"
  THEN << Response(500, FALSE, "Failed to initialize GitHub analyzer") >>
  ELSE << >>

\* the request was turned away before the analysis started: the response of
\* lines 26-118 as a one-element sequence, or the empty sequence
Rejected(request) ==
  IF request.body.kind # "object"
  THEN << Response(400, FALSE, "Invalid JSON in request body") >>
  ELSE IF Falsy(request.body.username) \/ request.body.username.type # "string"
  THEN << Response(400, FALSE, "Username is required and must be a string") >>
  ELSE IF ~UsernameFormat(request.body.username.chars)
  THEN << Response(400, FALSE, "Invalid GitHub username format") >>
  ELSE IF request.session = "throws"
  THEN << Response(500, FALSE, "getServerSession failed") >>
  ELSE IF request.session = "null"
  THEN << Response(401, FALSE, "Not authenticated. Please sign in with GitHub.") >>
  ELSE IF request.session = "no accessToken"
  THEN << Response(401, FALSE, "GitHub access token not available. Please re-authenticate.") >>
  ELSE IF ~request.env.GITHUB_CLIENT_ID \/ ~request.env.GITHUB_CLIENT_SECRET
  THEN << Response(500, FALSE, "GitHub OAuth not configured. Please set GITHUB_CLIENT_ID and GITHUB_CLIENT_SECRET.") >>
  ELSE IF request.octokit = "throws"
  THEN << Response(500, FALSE, "Failed to initialize GitHub analyzer") >>
  ELSE << >>

\* export async function POST(request); result is what analyzeDeveloper
\* returned or threw, for a request that was not turned away
POST(request, result) ==
  IF Rejected(request) # << >> THEN Rejected(request)[1]
  ELSE IF result.threw
  THEN AnalysisFailed(request.body.username, result.message)
  ELSE [status |-> 200, success |-> TRUE, metrics |-> result.metrics]

\* the requests, with the session, the environment and the answers of
\* GitHub they meet: a body that is not JSON, the JSON null, or an object
\* whose username is undefined, a number or a string
Requests ==
  [body : {[kind |-> "invalid JSON"], [kind |-> "null"]}
            \cup [kind : {"object"},
                  username : {[type |-> "undefined"],
                              [type |-> "number", value |-> 0],
                              [type |-> "number", value |-> 42],
                              Str(<< >>),
                              Str(<< "o", "c", "t", "o", "c", "a", "t" >>),
                              Str(<< "n", "o", "-", "1" >>),
                              Str(<< "b", "a", "d", "!" >>),
                              Str(<< "-", "x" >>), Str(<< "x", "-" >>),
                              Str(<< "a", "-", "-", "b" >>),
                              Str([i \in 1..39 |-> "a"]),
                              Str([i \in 1..40 |-> "a"])}],
   session : {"throws", "null", "no accessToken", "accessToken"},
   env : {[GITHUB_CLIENT_ID |-> TRUE, GITHUB_CLIENT_SECRET |-> TRUE],
          [GITHUB_CLIENT_ID |-> FALSE, GITHUB_CLIENT_SECRET |-> TRUE],
          [GITHUB_CLIENT_ID |-> TRUE, GITHUB_CLIENT_SECRET |-> FALSE]},
   octokit : {"ok", "throws"},
   github :
     [getByUsername : {GitHub.Answered, GitHub.NotFound, GitHub.RateLimited,
                       GitHub.BadCredentials},
      listForUser : {GitHub.Answered, GitHub.RateLimited},
      listOrgs : {GitHub.Answered, GitHub.RateLimited},
      perRepo : {GitHub.Answered, GitHub.RateLimited},
      public_repos : 0..MaxRepos,
      followers : {10},
      elapsedMs : {1771200000}]]

InitPOST == Called("POST", Requests)

CallPOST ==
  /\ pc = "called"
  /\ op = "POST"
  /\ pc' = "returned"
  /\ ret' = POST(arg, analyzeDeveloper(arg.github))
  /\ returns' = IF Rejected(arg) # << >> THEN << >> ELSE GitHubCalls(arg.github)
  /\ UNCHANGED << op, arg, heap >>

SpecPOST == InitPOST /\ [][CallPOST]_vars

\* the request passed validation, the session holds an access token, OAuth
\* is configured and the analyzer was created, so that GitHub was asked
Analysing == Done("POST") /\ Rejected(arg) = << >>

\* C20: when GitHub reports that the requested user does not exist, an
\* authenticated POST /api/analyze-github answers 404 with success=false;
\* a rate-limit failure is answered with 429 and a GitHub authentication
\* failure with 401, not with a generic 500
C20_GitHubErrorsMapped ==
  Analysing /\ FirstFailure(arg.github) # GitHub.Answered
    => /\ ret.success = FALSE
       /\ FirstFailure(arg.github) = GitHub.NotFound => ret.status = 404
       /\ FirstFailure(arg.github) = GitHub.RateLimited => ret.status = 429
       /\ FirstFailure(arg.github) = GitHub.BadCredentials => ret.status = 401

\* the body is an object whose username is empty, not a string, or not in
\* the GitHub username format
InvalidUsername ==
  /\ arg.body.kind = "object"
  /\ \/ arg.body.username.type # "string"
     \/ arg.body.username.chars = << >>
     \/ ~UsernameFormat(arg.body.username.chars)

\* C21: a request whose username is empty, not a string or not in the
\* GitHub username format is answered 400 with success=false whatever the
\* session state is, and no GitHub call is made for it
C21_InvalidUsernameIs400 ==
  Done("POST") /\ InvalidUsername
    => /\ ret.status = 400
       /\ ret.success = FALSE
       /\ returns = << >>

\* a malformed username arrived without a session and was answered 400
C21_Witness ==
  /\ Done("POST")
  /\ arg.body.kind = "object"
  /\ arg.body.username.type = "string"
  /\ arg.body.username.chars # << >>
  /\ ~UsernameFormat(arg.body.username.chars)
  /\ arg.session = "null"
  /\ ret.status = 400

\* ------------------------------------------------------------------------
\* When calculateSkillScore returns the base value of the level
\* ------------------------------------------------------------------------
\* commits, linesOfCode and the number of projects are all at their cap
FullEvidence(evidence) ==
  /\ evidence.commits >= 100
  /\ evidence.linesOfCode >= 10000
  /\ Len(evidence.projects) >= 5

\* 50000 times what the real-valued product base * multiplier falls short
\* of the base of the level
Shortfall50000(subject) ==
  LevelBase(subject.proficiencyLevel)
    * (50000 - ExactMultiplier50000(subject.evidence))

\* C22: calculateSkillScore returns exactly the base value of the level only
\* when commits >= 100, linesOfCode >= 10000 and the number of projects >= 5
C22_BaseOnlyWithFullEvidence ==
  ( /\ Done("calculateSkillScore")
    /\ ValidSkill(arg)
    /\ ret = LevelBase(arg.credentialSubject.proficiencyLevel) )
    => FullEvidence(arg.credentialSubject.evidence)

\* C22, amended: calculateSkillScore returns the base value of the level
\* only when the product base * multiplier falls short of the base by at
\* most 0.5, and always when it falls short by less than 0.5; full evidence
\* is one such case
C22_BaseOnlyWithinHalf ==
  (Done("calculateSkillScore") /\ ValidSkill(arg))
    => LET subject == arg.credentialSubject
           base == LevelBase(subject.proficiencyLevel)
       IN  /\ ret = base => 2 * Shortfall50000(subject) <= 50000
           /\ 2 * Shortfall50000(subject) < 50000 => ret = base
           /\ FullEvidence(subject.evidence) => ret = base

\* a call returned the base value of its level for evidence below a cap
C22_Witness ==
  /\ Done("calculateSkillScore")
  /\ ValidSkill(arg)
  /\ ret = LevelBase(arg.credentialSubject.proficiencyLevel)
  /\ ~FullEvidence(arg.credentialSubject.evidence)

\* ------------------------------------------------------------------------
\* The edges of the skill graph
\* ------------------------------------------------------------------------
\* no two edges join the same unordered pair of skill names, and no edge
\* joins a skill name to itself
EdgesStoredOnce(connections) ==
  /\ \A a \in 1..Len(connections) : connections[a].from # connections[a].to
  /\ \A a \in 1..Len(connections), b \in 1..Len(connections) :
       a < b => {connections[a].from, connections[a].to}
                  # {connections[b].from, connections[b].to}

\* the skill credentials of the list have pairwise distinct skill names
DistinctSkillNames(credentials) ==
  LET skills == SelectSeq(credentials, IsSkill)
  IN  \A a \in 1..Len(skills), b \in 1..Len(skills) :
        a < b => skills[a].credentialSubject.skillName
                   # skills[b].credentialSubject.skillName

\* C23: for every credential list, the connections buildSkillGraph returns
\* store each edge once: no two edges have the same unordered pair of skill
\* names, and no edge joins a skill name to itself
C23_EdgesStoredOnce ==
  Done("buildSkillGraph") => EdgesStoredOnce(ret.connections)

\* C23, amended: for every credential list whose skill credentials have
\* pairwise distinct skill names, the connections store each edge once; for
\* every list there is at most one edge per pair of skill nodes
C23_EdgesStoredOncePerNodePair ==
  Done("buildSkillGraph")
    => /\ 2 * Len(ret.connections) <= Len(ret.skills) * (Len(ret.skills) - 1)
       /\ DistinctSkillNames(arg) => EdgesStoredOnce(ret.connections)

\* three skills with distinct names and a common project were connected by
\* three edges
C23_Witness ==
  /\ Done("buildSkillGraph")
  /\ DistinctSkillNames(arg)
  /\ Len(ret.skills) = 3
  /\ Len(ret.connections) = 3

\* ------------------------------------------------------------------------
\* Concurrent invocations
\* ------------------------------------------------------------------------
\* what the invocation call returns when it runs alone on the credentials
\* and the metrics passed
Alone(call) ==
  CASE call.op = "calculateReputationScore" -> calculateReputationScore(arg.metrics)
    [] call.op = "calculateSkillScore" -> calculateSkillScore(arg.credentials[call.on])
    [] call.op = "calculateTrustScore" -> calculateTrustScore(arg.credentials)
    [] call.op = "aggregateEndorsements" ->
         aggregateEndorsements(SelectSeq(arg.credentials, IsEndorsement))
    [] call.op = "buildSkillGraph" -> buildSkillGraph(arg.credentials)

\* the references to created objects that the local variables in cell hold
Held(cell) ==
  {cell.map[k] : k \in 1..Len(cell.map)}
    \cup {cell.skills[k] : k \in 1..Len(cell.skills)}
    \cup {cell.endorsements[k] : k \in 1..Len(cell.endorsements)}

\* C24: under any interleaving of concurrent invocations of
\* calculateReputationScore and the four engine operations, also on the same
\* credential list, every invocation returns what it returns when run
\* alone, and no invocation reads or writes state written by another: the
\* credentials stay as passed and the objects an invocation created are
\* held by its local variables only
C24_ConcurrentAsAlone ==
  pc = "running"
    => /\ \A i \in 1..Len(arg.credentials) : heap[i] = arg.credentials[i]
       /\ \A p \in 1..MaxInvocations :
            returns[p].result # << >> => returns[p].result[1] = Alone(arg.calls[p])
       /\ \A p \in 1..MaxInvocations, q \in 1..MaxInvocations :
            p # q => Held(ret[p]) \cap Held(ret[q]) = {}

\* two aggregateEndorsements invocations on two endorsements of one skill:
\* the second returned while the first was between its two iterations
C24_Witness ==
  /\ pc = "running"
  /\ arg.calls[1].op = "aggregateEndorsements"
  /\ arg.calls[2].op = "aggregateEndorsements"
  /\ Len(Endorsed) = 2
  /\ returns[1].i = 2
  /\ returns[2].result # << >>
  /\ Len(returns[2].result[1]) = 1
  /\ returns[2].result[1][1].count = 2

\* ------------------------------------------------------------------------
\* The range of the trust score
\* ------------------------------------------------------------------------
\* portfolio scores in 0..100, ratings in 1..5, commit counts and evidence
\* not negative
InRange(credential) ==
  LET t == credentialType(credential)
      subject == credential.credentialSubject
  IN  /\ t = "DevPortfolioCredential" => subject.reputationScore \in 0..100
      /\ t = "SkillCredential" => ValidSkill(credential)
      /\ t = "ProjectCredential" => subject.contributionMetrics.commits >= 0
      /\ t = "EndorsementCredential" => subject.rating \in 1..5

\* C25: for every non-empty credential list with portfolio scores in
\* 0..100, ratings in 1..5 and non-negative evidence and commit counts,
\* calculateTrustScore returns an integer in 0..100, however many
\* credentials of each kind the list holds
C25_TrustInRange ==
  ( /\ Done("calculateTrustScore")
    /\ arg # << >>
    /\ \A i \in 1..Len(arg) : InRange(arg[i]) )
    => ret \in 0..100

\* three credentials of different kinds, each worth 100, returned 100
C25_Witness ==
  /\ Done("calculateTrustScore")
  /\ Len(arg) = 3
  /\ credentialType(arg[1]) = "DevPortfolioCredential"
  /\ credentialType(arg[2]) = "ProjectCredential"
  /\ credentialType(arg[3]) = "EndorsementCredential"
  /\ arg[1].credentialSubject.reputationScore = 100
  /\ arg[2].credentialSubject.contributionMetrics.commits = 2000
  /\ arg[3].credentialSubject.rating = 5
  /\ ret = 100

\* ------------------------------------------------------------------------
\* POST /api/mint: requests served concurrently against the contract
\* ------------------------------------------------------------------------
\* Requests 1..MaxMintRequests are served by one Node.js process: a handler
\* runs until its next await, and the handlers' continuations interleave.
\* arg holds the request bodies and process.env, heap the storage of the
\* deployed contract, and ret one cell of locals per request: the await it
\* is suspended at (step), the lines it logged (log), airKitResult.success,
\* hasProfile, tokenId (0 for null) and the response once it was sent.
\* returns lists the mintDeveloperProfile transactions the node accepted,
\* in nonce order, each "pending" until it is mined. The developers'
\* wallets are externally owned accounts, for which _safeMint makes no
\* call to a receiver.

MaxMintRequests == 2

RequiredVariables ==
  {"DEPLOYER_PRIVATE_KEY", "PROOF_OF_DEV_CONTRACT_ADDRESS", "MOCA_RPC_URL",
   "AIRKIT_PARTNER_ID", "AIRKIT_API_KEY", "NEXTAUTH_SECRET", "NEXTAUTH_URL"}

requiredMetrics ==
  << "reputationScore", "totalCommits", "totalRepositories", "totalStars",
     "followers", "accountAge", "topLanguages" >>

\* validateEnvironment without the required variables
validateEnvironment_lenient(env) == [isValid |-> TRUE, missing |-> {}]

\* validateEnvironment(): env.set holds the variables with a non-empty value
validateEnvironment(env) ==
  [isValid |-> RequiredVariables \ env.set = {},
   missing |-> RequiredVariables \ env.set]

\* validateInput(body): metrics.defined holds the metrics that are neither
\* undefined nor null
validateInput(body) ==
  LET absent == {i \in 1..Len(requiredMetrics) :
                   requiredMetrics[i] \notin body.metrics.defined}
  IN  IF Falsy(body.developer) \/ body.developer.type # "string"
      THEN [isValid |-> FALSE, error |-> "Missing or invalid developer address"]
      ELSE IF Falsy(body.githubUsername) \/ body.githubUsername.type # "string"
      THEN [isValid |-> FALSE, error |-> "Missing or invalid GitHub username"]
      ELSE IF body.metrics.type # "object"
      THEN [isValid |-> FALSE, error |-> "Missing or invalid metrics object"]
      ELSE IF absent # {}
      THEN [isValid |-> FALSE,
            error |-> requiredMetrics[CHOOSE i \in absent : \A j \in absent : i <= j]]
      ELSE IF ~body.metrics.topLanguagesIsArray
      THEN [isValid |-> FALSE, error |-> "topLanguages must be an array"]
      ELSE [isValid |-> TRUE, error |-> ""]

MintBody(json, developer, githubUsername, metrics) ==
  [json |-> json, developer |-> developer, githubUsername |-> githubUsername,
   metrics |-> metrics]

MetricsObject(defined, topLanguagesIsArray, integers) ==
  [type |-> "object", defined |-> defined,
   topLanguagesIsArray |-> topLanguagesIsArray, integers |-> integers]

\* the bodies requests are drawn from: the text that is no JSON, a body
\* failing each check of validateInput, and well-formed bodies for two
\* wallets and two usernames, one of them with a fractional score
MintBodies ==
  LET all == Range(requiredMetrics)
      full == MetricsObject(all, TRUE, TRUE)
      none == [type |-> "undefined", defined |-> {},
               topLanguagesIsArray |-> FALSE, integers |-> TRUE]
  IN  << MintBody(FALSE, [type |-> "undefined"], [type |-> "undefined"], none),
         MintBody(TRUE, [type |-> "undefined"], Str(<< "octocat" >>), full),
         MintBody(TRUE, Str(<< "0xA" >>), [type |-> "number", value |-> 7], full),
         MintBody(TRUE, Str(<< "0xA" >>), Str(<< "octocat" >>), none),
         MintBody(TRUE, Str(<< "0xA" >>), Str(<< "octocat" >>),
                  MetricsObject(all \ {"totalStars"}, TRUE, TRUE)),
         MintBody(TRUE, Str(<< "0xA" >>), Str(<< "octocat" >>),
                  MetricsObject(all, FALSE, TRUE)),
         MintBody(TRUE, Str(<< "0xA" >>), Str(<< "octocat" >>),
                  MetricsObject(all, TRUE, FALSE)),
         MintBody(TRUE, Str(<< "0xA" >>), Str(<< "octocat" >>), full),
         MintBody(TRUE, Str(<< "0xA" >>), Str(<< "torvalds" >>), full),
         MintBody(TRUE, Str(<< "0xB" >>), Str(<< "octocat" >>), full) >>

\* process.env: the variables that are set, the contract address by its
\* prefix, its length and whether it is the zero placeholder, and the
\* wallet of DEPLOYER_PRIVATE_KEY ("" when the key is no private key)
MintEnvironments ==
  LET env(set, prefix, length, zero, wallet) ==
        [set |-> set, prefix |-> prefix, length |-> length, zero |-> zero,
         wallet |-> wallet]
  IN  {env(RequiredVariables, "0x", 42, FALSE, "0xA"),
       env(RequiredVariables, "0x", 42, FALSE, "0xB"),
       env(RequiredVariables, "0x", 42, FALSE, ""),
       env(RequiredVariables \ {"NEXTAUTH_SECRET"}, "0x", 42, FALSE, "0xA"),
       env(RequiredVariables, "0x", 42, TRUE, "0xA"),
       env(RequiredVariables, "", 42, FALSE, "0xA"),
       env(RequiredVariables, "0x", 40, FALSE, "0xA")}

\* the contract was deployed by wallet 0xA; requests are listed in the
\* order of their bodies in MintBodies, every order of their steps being
\* an interleaving
InitMint ==
  /\ pc = "serving"
  /\ op = "POST"
  /\ arg \in {[requests |-> [p \in 1..MaxMintRequests |-> MintBodies[f[p]]],
               env |-> env] :
                f \in {g \in [1..MaxMintRequests -> 1..Len(MintBodies)] :
                         \A p \in 1..(MaxMintRequests - 1) : g[p] <= g[p + 1]},
                env \in MintEnvironments}
  /\ ret = [p \in 1..MaxMintRequests |->
              [step |-> "req.json", log |-> << >>, airKitResult |-> "none",
               hasProfile |-> FALSE, tokenId |-> 0, response |-> << >>]]
  /\ heap = Storage0("0xA")
  /\ returns = << >>

Developer(p) == arg.requests[p].developer.chars[1]

\* request p, suspended at step at, continues: its cell becomes cell
Continues(p, at, cell) ==
  /\ pc = "serving"
  /\ ret[p].step = at
  /\ op' = at
  /\ ret' = [ret EXCEPT ![p] = cell]
  /\ UNCHANGED << pc, arg >>

\* return NextResponse.json({...}, { status })
Responded(cell, status, message) ==
  [cell EXCEPT !.step = "responded",
               !.response = << [status |-> status, message |-> message,
                                tokenId |-> cell.tokenId] >>]

\* console.log(line)
Logged(cell, line) == [cell EXCEPT !.log = Append(cell.log, line)]

\* lines 426-501: the body is parsed and validated, then the environment
\* and the contract address, and mintDeveloperBadge is called
Receive(p) ==
  LET body == arg.requests[p]
      env == arg.env
  IN  /\ Continues(p, "req.json",
           IF ~body.json
           THEN Responded(ret[p], 400, "Invalid JSON in request body")
           ELSE IF ~validateInput(body).isValid
           THEN Responded(Logged(ret[p], "Request body parsed successfully"),
                          400, validateInput(body).error)
           ELSE IF ~validateEnvironment(env).isValid
           THEN Responded(Logged(ret[p], "Request body parsed successfully"),
                          500, "Server configuration missing")
           ELSE IF env.zero /\ env.prefix = "0x" /\ env.length = 42
           THEN Responded(Logged(ret[p], "Request body parsed successfully"),
                          500, "Contract not deployed")
           ELSE IF env.prefix # "0x" \/ env.length # 42
           THEN Responded(Logged(ret[p], "Request body parsed successfully"),
                          500, "Invalid contract address format")
           ELSE [Logged(Logged(ret[p], "Request body parsed successfully"),
                        "Environment validation passed")
                   EXCEPT !.step = "mintDeveloperBadge"])
      /\ UNCHANGED << heap, returns >>

\* lines 502-543: mintDeveloperBadge resolves, issued or not, then
\* getServerWalletAndContract runs and hasProfile is called
IssueCredential(p) ==
  \E success \in BOOLEAN :
    LET cell == [Logged(ret[p], "AIR Kit credential result")
                   EXCEPT !.airKitResult = IF success THEN "success" ELSE "failure"]
    IN  /\ Continues(p, "mintDeveloperBadge",
             IF ~success
             THEN Responded(cell, 500, "AIR Kit credential issuance failed")
             ELSE IF "DEPLOYER_PRIVATE_KEY" \notin arg.env.set \/ arg.env.wallet = ""
             THEN Responded(cell, 500, "Failed to create contract instance")
             ELSE [Logged(cell, "Contract instance created successfully")
                     EXCEPT !.step = "hasProfile"])
        /\ UNCHANGED << heap, returns >>

\* lines 573-594: the profile is prepared, BigInt throwing on a number
\* that is no integer, and mintDeveloperProfile is called
Prepared(p, cell) ==
  IF ~arg.requests[p].metrics.integers
  THEN Responded(cell, 500, "The number cannot be converted to a BigInt")
  ELSE [cell EXCEPT !.step = "mintDeveloperProfile"]

\* lines 543-553: hasProfile resolves with the contract's answer or
\* rejects, which the catch logs and ignores
HasProfile(p) ==
  \E answered \in BOOLEAN :
    /\ Continues(p, "hasProfile",
         IF ~answered
         THEN Prepared(p, Logged(ret[p], "Could not check existing profile"))
         ELSE IF heap.walletToTokenId[Developer(p)] # 0
         THEN [ret[p] EXCEPT !.step = "walletToTokenId", !.hasProfile = TRUE]
         ELSE Prepared(p, ret[p]))
    /\ UNCHANGED << heap, returns >>

\* lines 545-571: walletToTokenId resolves with the token id, or rejects
\* and tokenId!.toString() throws on null
WalletToTokenId(p) ==
  \E answered \in BOOLEAN :
    /\ Continues(p, "walletToTokenId",
         IF answered
         THEN Responded([Logged(ret[p], "Developer already has profile")
                           EXCEPT !.tokenId = heap.walletToTokenId[Developer(p)]],
                        200, "Developer already has a Proof of Dev token")
         ELSE Responded(Logged(ret[p], "Could not check existing profile"),
                        500, "Cannot read properties of null"))
    /\ UNCHANGED << heap, returns >>

\* lines 593-609: mintDeveloperProfile resolves once the node accepted the
\* signed transaction; it rejects when the gas estimate reverts on the
\* current storage or the node refuses the transaction
Submit(p) ==
  \E accepted \in BOOLEAN :
    LET outcome == MintOutcome(arg.env.wallet, Developer(p),
                               arg.requests[p].githubUsername.chars[1], TRUE)
        sent == outcome = "ok" /\ accepted
    IN  /\ Continues(p, "mintDeveloperProfile",
             IF sent THEN [Logged(ret[p], "Transaction submitted")
                             EXCEPT !.step = "tx.wait"]
             ELSE Responded(ret[p], 500, "Blockchain minting failed"))
        /\ returns' = IF sent
                      THEN Append(returns, [request |-> p, status |-> "pending"])
                      ELSE returns
        /\ UNCHANGED heap

\* the chain mines the pending transaction with the lowest nonce
Mine ==
  \E i \in 1..Len(returns) :
    LET p == returns[i].request
        outcome == MintOutcome(arg.env.wallet, Developer(p),
                               arg.requests[p].githubUsername.chars[1], TRUE)
    IN  /\ pc = "serving"
        /\ returns[i].status = "pending"
        /\ \A j \in 1..(i - 1) : returns[j].status # "pending"
        /\ heap._tokenIdCounter < MaxTokens
        /\ op' = "mined"
        /\ heap' = IF outcome = "ok"
                   THEN Minted(Developer(p), arg.requests[p].githubUsername.chars[1], 0)
                   ELSE heap
        /\ returns' = [returns EXCEPT ![i].status =
                         IF outcome = "ok" THEN "ok" ELSE "reverted"]
        /\ UNCHANGED << pc, arg, ret >>

\* tx.wait() resolving for every mined transaction
Confirmed_always(status) == status # "pending"

\* tx.wait() resolves with the receipt of a transaction that succeeded and
\* rejects for one that reverted
Confirmed(status) == status = "ok"

\* lines 609-646: tx.wait() resolves or rejects, also for a transaction
\* that is replaced, dropped or not mined in time
Wait(p) ==
  \E i \in 1..Len(returns), failed \in BOOLEAN :
    /\ returns[i].request = p
    /\ failed \/ returns[i].status # "pending"
    /\ Continues(p, "tx.wait",
         IF ~failed /\ Confirmed(returns[i].status)
         THEN Responded(Logged(ret[p], "Transaction confirmed"),
                        200, "Credential minted successfully")
         ELSE Responded(ret[p], 500, "Transaction confirmation failed"))
    /\ UNCHANGED << heap, returns >>

NextMint ==
  \/ \E p \in 1..MaxMintRequests :
       \/ Receive(p)
       \/ IssueCredential(p)
       \/ HasProfile(p)
       \/ WalletToTokenId(p)
       \/ Submit(p)
       \/ Wait(p)
  \/ Mine

SpecMint == InitMint /\ [][NextMint]_vars

\* ------------------------------------------------------------------------
\* What precedes the mint transaction
\* ------------------------------------------------------------------------
\* the transactions of request p that the node accepted
Submitted(p) == {i \in 1..Len(returns) : returns[i].request = p}

\* the lines a request logged up to its "Transaction submitted"
BeforeSubmission(p) ==
  SubSeq(ret[p].log, 1,
         (CHOOSE i \in 1..Len(ret[p].log) : ret[p].log[i] = "Transaction submitted") - 1)

ChecksInOrder ==
  << "Request body parsed successfully", "Environment validation passed",
     "AIR Kit credential result", "Contract instance created successfully" >>

\* the responses of the steps before the transaction
RejectedEarlier ==
  {"Invalid JSON in request body", "Missing or invalid developer address",
   "Missing or invalid GitHub username", "Missing or invalid metrics object",
   "topLanguages must be an array", "Server configuration missing",
   "Contract not deployed", "Invalid contract address format",
   "AIR Kit credential issuance failed", "Failed to create contract instance"}
    \cup Range(requiredMetrics)

\* C27: a request whose mintDeveloperProfile transaction was submitted had
\* a body that parsed and passed validateInput, an environment with every
\* required variable set and a contract address that is neither the zero
\* placeholder nor malformed, a credential that AIR Kit issued, and a
\* hasProfile check that answered false or failed, in this order; a
\* request rejected at an earlier step, or answered that the developer
\* already has a token, submitted no transaction
C27_MintOnlyAfterChecks ==
  pc = "serving" =>
    \A p \in 1..MaxMintRequests :
      /\ Submitted(p) # {} =>
           /\ arg.requests[p].json
           /\ validateInput(arg.requests[p]).isValid
           /\ RequiredVariables \subseteq arg.env.set
           /\ ~arg.env.zero /\ arg.env.prefix = "0x" /\ arg.env.length = 42
           /\ ret[p].airKitResult = "success"
           /\ ~ret[p].hasProfile
           /\ BeforeSubmission(p) \in
                {ChecksInOrder,
                 Append(ChecksInOrder, "Could not check existing profile")}
      /\ ( /\ ret[p].response # << >>
           /\ \/ ret[p].response[1].message \in RejectedEarlier
              \/ ret[p].response[1].message = "Developer already has a Proof of Dev token" )
           => Submitted(p) = {}

\* one request was refused for its body; the other, whose hasProfile check
\* failed, submitted its transaction
C27_Witness ==
  /\ pc = "serving"
  /\ ret[1].response # << >>
  /\ ret[1].response[1].status = 400
  /\ Submitted(1) = {}
  /\ Submitted(2) # {}
  /\ BeforeSubmission(2) = Append(ChecksInOrder, "Could not check existing profile")

\* ------------------------------------------------------------------------
\* Requests racing for one wallet
\* ------------------------------------------------------------------------
\* the requests whose body names wallet w as the developer
Naming(w) ==
  {p \in 1..MaxMintRequests :
     arg.requests[p].json /\ arg.requests[p].developer = Str(<< w >>)}

AnsweredWith(p, message) ==
  ret[p].response # << >> /\ ret[p].response[1].message = message

\* of the requests ps, all for wallet w: one token at most, one answer
\* "Credential minted successfully" at most, and every other answer either
\* the existing token's id or a status 500
OneMintAmong(ps, w) ==
  /\ Cardinality({t \in TokenIds : heap._owners[t] = w}) <= 1
  /\ Cardinality({p \in ps : AnsweredWith(p, "Credential minted successfully")}) <= 1
  /\ \A p \in ps :
       ret[p].response # << >> =>
         \/ AnsweredWith(p, "Credential minted successfully")
         \/ /\ AnsweredWith(p, "Developer already has a Proof of Dev token")
            /\ ret[p].response[1].status = 200
            /\ ret[p].response[1].tokenId # 0
            /\ ret[p].response[1].tokenId = heap.walletToTokenId[w]
         \/ ret[p].response[1].status = 500

\* C28 as stated: of two or more requests naming one wallet, however their
\* steps interleave, at most one token is minted for the wallet, at most
\* one request answers "Credential minted successfully", and every other
\* request ends with the existing token's id or with a status 500
C28_OneMintPerWallet ==
  pc = "serving" =>
    \A w \in Wallets :
      Cardinality(Naming(w)) >= 2 => OneMintAmong(Naming(w), w)

\* C28, amended: the same of the requests naming the wallet whose body
\* passed validateInput; a request whose body fails it ends with a status
\* 400 and mints nothing
C28_OneMintPerWalletAmongValid ==
  pc = "serving" =>
    \A w \in Wallets :
      /\ Cardinality(Naming(w)) >= 2 =>
           OneMintAmong({p \in Naming(w) : validateInput(arg.requests[p]).isValid}, w)
      /\ \A p \in Naming(w) :
           (~validateInput(arg.requests[p]).isValid /\ ret[p].response # << >>)
             => ret[p].response[1].status = 400 /\ Submitted(p) = {}

\* two requests for wallet 0xA both submitted a transaction; the first was
\* mined and answered as minted, the second reverted and answered 500
C28_Witness ==
  /\ pc = "serving"
  /\ Naming("0xA") = {1, 2}
  /\ Len(returns) = 2
  /\ returns[1].status = "ok"
  /\ returns[2].status = "reverted"
  /\ AnsweredWith(returns[1].request, "Credential minted successfully")
  /\ AnsweredWith(returns[2].request, "Transaction confirmation failed")
  /\ ret[returns[2].request].response[1].status = 500
  /\ Cardinality({t \in TokenIds : heap._owners[t] = "0xA"}) = 1

\* ------------------------------------------------------------------------
\* /api/verify: the credentials a verification request is answered with
\* ------------------------------------------------------------------------
\* arg holds the request (its method, the address, the credentialTypes of
\* a POST body and the credentialId of a GET query, each absent as << >>),
\* the credentials that getUserProfile returns for the address (held) and
\* the clock. A credential is its type array, its id, the set of fields
\* holding a truthy value, and its expirationDate in days (0 for none).

MaxHeld == 2

HeldCredential(type, id, fields, expirationDate) ==
  [type |-> << "VerifiableCredential", type >>, id |-> id, fields |-> fields,
   expirationDate |-> expirationDate]

\* AirKitService.getCredentialsByType: the credentials of the profile whose
\* type array includes the requested credentialType
getCredentialsByType(held, requested) ==
  SelectSeq(held, LAMBDA cred : \E i \in DOMAIN cred.type : cred.type[i] = requested)

\* credentialTypes.map(type => getCredentialsByType(address, type)), flat()
RECURSIVE CredentialsOfTypes(_, _)
CredentialsOfTypes(held, credentialTypes) ==
  IF credentialTypes = << >> THEN << >>
  ELSE getCredentialsByType(held, Head(credentialTypes))
         \o CredentialsOfTypes(held, Tail(credentialTypes))

\* CredentialValidator.validateCredentialStructure
validateCredentialStructure(credential) ==
  {"@context", "type", "id", "issuer", "credentialSubject", "issuanceDate", "proof"}
    \subseteq credential.fields

\* CredentialValidator.isExpired
isExpired(credential, now) ==
  IF credential.expirationDate = 0 THEN FALSE ELSE credential.expirationDate < now

VerifyResponse(status, verified, credentials, verificationResults) ==
  [status |-> status, verified |-> verified, credentials |-> credentials,
   verificationResults |-> verificationResults]

\* POST /api/verify; verifyCredential answers true for every id
VerifyPOST(request, held, now) ==
  IF request.address = ""
  THEN VerifyResponse(400, FALSE, << >>, << >>)
  ELSE \* one element: the credentials fetched
       CHOOSE response \in
         {VerifyResponse(200,
                         \E i \in DOMAIN credentials :
                           /\ validateCredentialStructure(credentials[i])
                           /\ ~isExpired(credentials[i], now),
                         credentials,
                         [i \in DOMAIN credentials |->
                            [credentialId |-> credentials[i].id,
                             valid |-> /\ validateCredentialStructure(credentials[i])
                                       /\ ~isExpired(credentials[i], now),
                             expired |-> isExpired(credentials[i], now)]]) :
            credentials \in
              {IF request.credentialTypes # << >>
               THEN CredentialsOfTypes(held, request.credentialTypes[1])
               ELSE getCredentialsByType(held, "all")}} : TRUE

\* GET /api/verify?credentialId=...&address=...
VerifyGET(request, held) ==
  IF request.credentialId # << >> /\ request.credentialId[1] # ""
  THEN VerifyResponse(200, TRUE, << >>, << >>)
  ELSE IF request.address # ""
  THEN VerifyResponse(200, Len(getCredentialsByType(held, "all")) > 0,
                      getCredentialsByType(held, "all"), << >>)
  ELSE VerifyResponse(200, FALSE, << >>, << >>)

\* the credentials a profile may hold: each of two kinds complete, one
\* without its proof, one expired and one expiring later
VerifyInputs ==
  LET complete == {"@context", "type", "id", "issuer", "credentialSubject",
                   "issuanceDate", "proof"}
      pool == {HeldCredential("DevPortfolioCredential", "cred-1", complete, 0),
               HeldCredential("SkillCredential", "cred-2", complete, 0),
               HeldCredential("SkillCredential", "cred-3", complete \ {"proof"}, 0),
               HeldCredential("ProjectCredential", "cred-4", complete, 19000),
               HeldCredential("ProjectCredential", "cred-5", complete, 21000)}
      request(method, address, credentialTypes, credentialId) ==
        [method |-> method, address |-> address,
         credentialTypes |-> credentialTypes, credentialId |-> credentialId]
  IN  [request : {request("POST", address, types, << >>) :
                    address \in {"", "0xA"},
                    types \in {<< >>, << << >> >>, << << "all" >> >>,
                               << << "SkillCredential" >> >>,
                               << << "SkillCredential", "DevPortfolioCredential" >> >>}}
                 \cup {request("GET", address, << >>, id) :
                         address \in {"", "0xA"},
                         id \in {<< >>, << "" >>, << "cred-1" >>}},
       held : SeqsUpTo(pool, MaxHeld),
       now : {20000}]

InitVerify == Called("verify", VerifyInputs)

CallVerifyPOST ==
  /\ arg.request.method = "POST"
  /\ Returns("verify", VerifyPOST(arg.request, arg.held, arg.now))

CallVerifyGET ==
  /\ arg.request.method = "GET"
  /\ Returns("verify", VerifyGET(arg.request, arg.held))

SpecVerify == InitVerify /\ [][CallVerifyPOST \/ CallVerifyGET]_vars

\* the request asks for no particular credential types: a POST body with an
\* address and without credentialTypes, or a GET query with an address and
\* without a credentialId
NamesNoTypes ==
  /\ arg.request.address # ""
  /\ \/ arg.request.method = "POST" /\ arg.request.credentialTypes = << >>
     \/ arg.request.method = "GET" /\ arg.request.credentialId = << >>

\* C29: a request that names no credential types, for a developer holding
\* at least one structurally valid, unexpired credential, is answered with
\* a non-empty credentials list and verified = true
C29_AllCredentialsFetched ==
  ( /\ Done("verify")
    /\ NamesNoTypes
    /\ \E i \in DOMAIN arg.held :
         /\ validateCredentialStructure(arg.held[i])
         /\ ~isExpired(arg.held[i], arg.now) )
    => ret.credentials # << >> /\ ret.verified

\* ------------------------------------------------------------------------
\* /api/admin/issuers: the two in-memory issuer stores
\* ------------------------------------------------------------------------
\* issuers/route.ts and issuers/[id]/route.ts each declare their own
\* module-level array issuers: heap.collection is the array POST pushes
\* to, heap.item the array PUT and DELETE work on. A DID is the sequence
\* of its parts between colons. POST and DELETE touch their array only
\* after their last await, so each is one step; PUT finds the index of its
\* issuer, awaits request.json() and then checks and writes, so returns
\* is the bag of the PUT requests suspended at that await, each with its
\* path id and the index it found. arg and ret are the last request
\* continued and its response. A request without an admin session is
\* refused before its path id and its body are looked at, so one id and
\* one body stand for all of them.

MaxSuspended == 2

Issuer(id, name, did, credentials) ==
  [id |-> id, name |-> name, did |-> did, credentials |-> credentials]

\* let issuers: Issuer[] = [...], the same three issuers in both modules
issuers0 ==
  << Issuer("1", "GitHub", << "did", "moca", "issuer", "github" >>, 2),
     Issuer("2", "Microsoft", << "did", "moca", "issuer", "microsoft" >>, 2),
     Issuer("3", "Open Source Foundation",
            << "did", "moca", "issuer", "opensource" >>, 1) >>

InitIssuers ==
  /\ pc = "serving"
  /\ op = "GET"
  /\ arg = [session |-> "admin", id |-> "", body |-> << >>]
  /\ ret = [status |-> 200, error |-> ""]
  /\ heap = [collection |-> issuers0, item |-> issuers0]
  /\ returns = EmptyBag

\* request bodies: name and did ("" and << >> when missing), and whether
\* type and description are set; a text that is no JSON is << >>
IssuerBodies ==
  LET body(name, did, rest) == << [name |-> name, did |-> did, rest |-> rest] >>
  IN  {<< >>,
       body("", << "did", "moca", "issuer", "gitlab" >>, TRUE),
       body("Renamed", << >>, TRUE),
       body("Renamed", << "did", "moca", "issuer", "gitlab" >>, FALSE),
       body("Renamed", << "moca", "issuer", "github" >>, TRUE),
       body("Renamed", << "did", "moca", "issuer", "github" >>, TRUE),
       body("Renamed", << "did", "moca", "issuer", "microsoft" >>, TRUE),
       body("Renamed", << "did", "moca", "issuer", "gitlab" >>, TRUE)}

\* the session check and the admin check that open every handler
Refused(session) ==
  IF session = "none" THEN << [status |-> 401, error |-> "Not authenticated. Please sign in."] >>
  ELSE IF session # "admin"
  THEN << [status |-> 403, error |-> "Not authorized. Admin privileges required."] >>
  ELSE << >>

\* the checks of the parsed body that POST and PUT share
Invalid(body) ==
  IF body = << >> THEN << [status |-> 500, error |-> "Failed"] >>
  ELSE IF body[1].name = "" \/ body[1].did = << >> \/ ~body[1].rest
  THEN << [status |-> 400,
           error |-> "Missing required fields: name, did, type, description"] >>
  ELSE IF ~(Len(body[1].did) >= 2 /\ body[1].did[1] = "did")
  THEN << [status |-> 400, error |-> "Invalid DID format. Must start with \"did:\""] >>
  ELSE << >>

\* issuers.findIndex(i => i.id === params.id), 0 for -1
findIndex(store, id) ==
  IF \E i \in DOMAIN store : store[i].id = id
  THEN CHOOSE i \in DOMAIN store :
         store[i].id = id /\ \A j \in 1..(i - 1) : store[j].id # id
  ELSE 0

\* PUT without the check of the DID
existingIssuer_none(store, did, id) == FALSE

\* issuers.find(i => i.did === did && i.id !== params.id) finds an issuer
existingIssuer(store, did, id) ==
  \E i \in DOMAIN store : store[i].did = did /\ store[i].id # id

\* a handler answered request with response
Answered(method, request, response) ==
  /\ pc = "serving"
  /\ op' = method
  /\ arg' = request
  /\ ret' = response
  /\ UNCHANGED pc

\* POST /api/admin/issuers
CreateIssuer ==
  \E session \in {"none", "user", "admin"}, body \in IssuerBodies :
    LET store == heap.collection
        failed ==
          IF Refused(session) # << >> THEN Refused(session)
          ELSE IF Invalid(body) # << >> THEN Invalid(body)
          ELSE IF \E i \in DOMAIN store : store[i].did = body[1].did
          THEN << [status |-> 409, error |-> "Issuer with this DID already exists"] >>
          ELSE << >>
    IN  /\ session # "admin" => body = << >>
        /\ Answered("POST", [session |-> session, id |-> "", body |-> body],
                    IF failed # << >> THEN failed[1]
                    ELSE [status |-> 200, error |-> ""])
        /\ heap' = IF failed # << >> THEN heap
                   ELSE [heap EXCEPT !.collection =
                           Append(store, Issuer(ToString(Len(store) + 1),
                                                body[1].name, body[1].did, 0))]
        /\ UNCHANGED returns

\* PUT /api/admin/issuers/{id} up to its await of request.json()
UpdateFind ==
  \E session \in {"none", "user", "admin"}, id \in {"1", "2", "4"} :
    LET issuerIndex == findIndex(heap.item, id)
        failed ==
          IF Refused(session) # << >> THEN Refused(session)
          ELSE IF issuerIndex = 0
          THEN << [status |-> 404, error |-> "Issuer not found"] >>
          ELSE << >>
    IN  /\ BagCardinality(returns) < MaxSuspended
        /\ session # "admin" => id = "4"
        /\ Answered("PUT", [session |-> session, id |-> id, body |-> << >>],
                    IF failed # << >> THEN failed[1]
                    ELSE [status |-> 0, error |-> ""])
        /\ returns' = IF failed # << >> THEN returns
                      ELSE returns (+) SetToBag({[id |-> id, issuerIndex |-> issuerIndex]})
        /\ UNCHANGED heap

\* PUT /api/admin/issuers/{id} from the body it parsed to its response
UpdateWrite ==
  \E suspended \in BagToSet(returns), body \in IssuerBodies :
    LET id == suspended.id
        issuerIndex == suspended.issuerIndex
        store == heap.item
        failed ==
          IF Invalid(body) # << >> THEN Invalid(body)
          ELSE IF existingIssuer(store, body[1].did, id)
          THEN << [status |-> 409, error |-> "Issuer with this DID already exists"] >>
          ELSE << >>
    IN  /\ Answered("PUT", [session |-> "admin", id |-> id, body |-> body],
                    IF failed # << >> THEN failed[1]
                    ELSE [status |-> 200, error |-> ""])
        /\ heap' = IF failed # << >> THEN heap
                   ELSE IF issuerIndex <= Len(store)
                   THEN [heap EXCEPT !.item[issuerIndex].name = body[1].name,
                                     !.item[issuerIndex].did = body[1].did]
                   ELSE [heap EXCEPT !.item =
                           Append(store, Issuer("undefined", body[1].name, body[1].did, 0))]
        /\ returns' = returns (-) SetToBag({suspended})

\* DELETE /api/admin/issuers/{id}
DeleteIssuer ==
  \E session \in {"none", "user", "admin"}, id \in {"1", "2", "4"} :
    LET store == heap.item
        issuerIndex == findIndex(store, id)
        failed ==
          IF Refused(session) # << >> THEN Refused(session)
          ELSE IF issuerIndex = 0
          THEN << [status |-> 404, error |-> "Issuer not found"] >>
          ELSE IF store[issuerIndex].credentials > 0
          THEN << [status |-> 409,
                   error |-> "Cannot delete issuer with issued credentials. Revoke credentials first."] >>
          ELSE << >>
    IN  /\ session # "admin" => id = "4"
        /\ Answered("DELETE", [session |-> session, id |-> id, body |-> << >>],
                    IF failed # << >> THEN failed[1]
                    ELSE [status |-> 200, error |-> ""])
        /\ heap' = IF failed # << >> THEN heap
                   ELSE [heap EXCEPT !.item =
                           SubSeq(store, 1, issuerIndex - 1)
                             \o SubSeq(store, issuerIndex + 1, Len(store))]
        /\ UNCHANGED returns

NextIssuers == CreateIssuer \/ UpdateFind \/ UpdateWrite \/ DeleteIssuer

SpecIssuers == InitIssuers /\ [][NextIssuers]_vars

\* no two issuers of the store share a DID
UniqueDIDs(store) ==
  \A i, j \in DOMAIN store : store[i].did = store[j].did => i = j

\* the request continued in this step is a create or an update, valid in
\* everything but its DID, whose DID another issuer of its store holds
WouldDuplicate ==
  /\ op' \in {"POST", "PUT"}
  /\ arg'.session = "admin"
  /\ arg'.body # << >>
  /\ Invalid(arg'.body) = << >>
  /\ \/ op' = "POST" /\ \E i \in DOMAIN heap.collection :
                          heap.collection[i].did = arg'.body[1].did
     \/ op' = "PUT" /\ \E i \in DOMAIN heap.item :
                         /\ heap.item[i].did = arg'.body[1].did
                         /\ heap.item[i].id # arg'.id

\* C30: whatever POST, PUT and DELETE requests are served, and however the
\* two halves of the PUT requests interleave with them, no two issuers of
\* a store share a DID; a create or update that would give an issuer the
\* DID of another issuer of its store is answered 409 and changes neither
\* store; and an update changes no issuer but the one with the path id
C30_UniqueDIDs ==
  /\ [](UniqueDIDs(heap.collection) /\ UniqueDIDs(heap.item))
  /\ [][WouldDuplicate => (ret'.status = 409 /\ heap' = heap)]_vars
  /\ [][op' = "PUT" =>
          /\ heap'.collection = heap.collection
          /\ Len(heap'.item) = Len(heap.item)
          /\ \A i \in DOMAIN heap.item :
               heap.item[i].id # arg'.id => heap'.item[i] = heap.item[i]]_vars

\* an update giving issuer 2 the DID of issuer 1 was answered 409 after
\* issuer 1 had been given another DID and a create had added an issuer
C30_Witness ==
  /\ pc = "serving"
  /\ op = "PUT"
  /\ arg.id = "2"
  /\ arg.body = << [name |-> "Renamed", rest |-> TRUE,
                    did |-> << "did", "moca", "issuer", "gitlab" >>] >>
  /\ ret.status = 409
  /\ heap.item[1].did = << "did", "moca", "issuer", "gitlab" >>
  /\ heap.item[2] = issuers0[2]
  /\ Len(heap.collection) = 4

====
